---- MODULE Spec2Model ----
(***************************************************************************)
(* Cross-system organization synchronization of the web console: the       *)
(* request handlers that keep the Keycloak directory and the PostgreSQL    *)
(* store consistent (slug check, organization create, membership sync at   *)
(* the OIDC callback, invitation invite and cancel, custom-domain add,     *)
(* verify and remove), modelled as concurrent request processes whose      *)
(* every awaited store, directory or DNS call is one atomic step, and the  *)
(* slug functions of lib/utils/slug.                                       *)
(***************************************************************************)
EXTENDS Integers, Sequences, FiniteSets, TLC

\* ------------------------------------------------------------------ bounds
\* requests started in one behaviour
MaxOps == 2
\* awaited calls that fail for a reason outside the model (network, store)
MaxFaults == 1
\* organizations created in the directory by its own administrators
MaxEnv == 1
\* days the clock advances within one behaviour
MaxNow == 2

\* ------------------------------------------------------------- the universe
Procs == {"p1", "p2"}

\* u1 and u2 have a directory account, u3 has a session but no account there
Users == {"u1", "u2", "u3"}
KcUsers == {"u1", "u2"}
Domains == {"d1", "d2"}

\* an email address is <<local part, domain>>
Email(u) == IF u = "u2" THEN <<u, "d2">> ELSE <<u, "d1">>

\* userEmail.split('@')[1]
EmailDomain(e) == e[2]

\* domain names a caller may claim as custom domain; d1 and d2 are also the
\* domains of the email addresses
DomainNames == {"d1", "d2"}
\* absent custom domain (null; the routes test it with !customDomain)
NoDomain == ""
\* a name without a dot
BadDomain == "nodot"

\* domainRegex /^[a-z0-9]+([\-\.]{1}[a-z0-9]+)*\.[a-z]{2,}$/i (the members
\* of DomainNames stand for dotted names)
domainRegex(d) == d \in DomainNames

\* values of generateVerificationToken(): 32 random characters of
\* [a-z0-9]; two calls may return different tokens or, rarely, the same
Tokens == {"t1", "t2"}
NoToken == ""

\* no email, and an address with nothing after the @
NoEmail == <<"", "">>
BadEmail == <<"u2", "">>

\* emailRegex /^[^\s@]+@[^\s@]+\.[^\s@]+$/: a local part, and after the @ a
\* dotted name (the members of Domains stand for dotted names)
emailRegex(e) == e[1] # "" /\ e[2] \in Domains

\* validRoles
validRoles == {"owner", "admin", "member"}

\* absent id, absent timestamp
Null == 0
\* absent slug / alias
NoSlug == << >>

Acme == <<"a", "c", "m", "e">>
Beta == <<"b", "e", "t", "a">>
Api == <<"a", "p", "i">>

\* slugs a caller submits: two valid ones, a reserved one
SlugInputs == {Acme, Beta, Api}

\* principals of the requests
CreateUsers == {"u1", "u3"}
SyncUsers == Users
CancelUsers == {"u1", "u2"}

\* ------------------------------------------------------------------- slugs
RESERVED_SLUGS ==
    {
      <<"a", "d", "m", "i", "n">>,
      <<"a", "p", "i">>,
      <<"a", "u", "t", "h">>,
      <<"d", "a", "s", "h", "b", "o", "a", "r", "d">>,
      <<"s", "e", "t", "t", "i", "n", "g", "s">>,
      <<"b", "i", "l", "l", "i", "n", "g">>,
      <<"s", "u", "p", "p", "o", "r", "t">>,
      <<"o", "n", "b", "o", "a", "r", "d", "i", "n", "g">>,
      <<"a", "c", "c", "o", "u", "n", "t">>,
      <<"p", "r", "o", "f", "i", "l", "e">>,
      <<"o", "r", "g", "a", "n", "i", "z", "a", "t", "i", "o", "n">>,
      <<"o", "r", "g", "a", "n", "i", "z", "a", "t", "i", "o", "n", "s">>,
      <<"t", "e", "a", "m">>,
      <<"t", "e", "a", "m", "s">>,
      <<"u", "s", "e", "r">>,
      <<"u", "s", "e", "r", "s">>,
      <<"l", "o", "g", "i", "n">>,
      <<"l", "o", "g", "o", "u", "t">>,
      <<"s", "i", "g", "n", "u", "p">>,
      <<"s", "i", "g", "n", "i", "n">>,
      <<"r", "e", "g", "i", "s", "t", "e", "r">>,
      <<"c", "a", "l", "l", "b", "a", "c", "k">>,
      <<"o", "a", "u", "t", "h">>,
      <<"s", "a", "m", "l">>,
      <<"o", "i", "d", "c">>,
      <<"s", "s", "o">>,
      <<"h", "e", "a", "l", "t", "h">>,
      <<"s", "t", "a", "t", "u", "s">>,
      <<"m", "e", "t", "r", "i", "c", "s">>,
      <<"d", "o", "c", "s">>,
      <<"d", "o", "c", "u", "m", "e", "n", "t", "a", "t", "i", "o", "n">>,
      <<"h", "e", "l", "p">>,
      <<"a", "b", "o", "u", "t">>,
      <<"c", "o", "n", "t", "a", "c", "t">>,
      <<"p", "r", "i", "v", "a", "c", "y">>,
      <<"t", "e", "r", "m", "s">>,
      <<"t", "o", "s">>
    }

MIN_LENGTH == 3
MAX_LENGTH == 50

Lower == {"a", "b", "c", "d", "e", "f", "g", "h", "i", "j", "k", "l", "m",
          "n", "o", "p", "q", "r", "s", "t", "u", "v", "w", "x", "y", "z"}
Digit == {"0", "1", "2", "3", "4", "5", "6", "7", "8", "9"}
AlNum == Lower \cup Digit

\* SLUG_CONFIG.PATTERN  /^[a-z0-9]+(?:-[a-z0-9]+)*$/
PATTERN(s) ==
    /\ Len(s) > 0
    /\ \A i \in 1..Len(s) : s[i] \in AlNum \cup {"-"}
    /\ s[1] # "-"
    /\ s[Len(s)] # "-"
    /\ \A i \in 1..(Len(s) - 1) : ~(s[i] = "-" /\ s[i + 1] = "-")

\* validateSlug without its test of the reserved words
validateSlugNoReserved(s) ==
    IF Len(s) < MIN_LENGTH THEN "too_short"
    ELSE IF Len(s) > MAX_LENGTH THEN "too_long"
    ELSE IF ~PATTERN(s) THEN "bad_format"
    ELSE "valid"

\* validateSlug: the error of the first failing check, "valid" otherwise
validateSlug(s) ==
    IF Len(s) < MIN_LENGTH THEN "too_short"
    ELSE IF Len(s) > MAX_LENGTH THEN "too_long"
    ELSE IF ~PATTERN(s) THEN "bad_format"
    ELSE IF s \in RESERVED_SLUGS THEN "reserved"
    ELSE "valid"

\* the blank that trim drops
Blank == " "

\* String.prototype.toLowerCase, one character
toLowerCase(c) == IF c = "A" THEN "a" ELSE IF c = "B" THEN "b" ELSE c

Min(a, b) == IF a < b THEN a ELSE b

\* String.prototype.trim: the blanks at both ends are dropped
trim(s) ==
    LET inner == {i \in 1..Len(s) : s[i] # Blank}
    IN  IF inner = {} THEN << >>
        ELSE SubSeq(s, CHOOSE i \in inner : \A j \in inner : i <= j,
                       CHOOSE i \in inner : \A j \in inner : j <= i)

\* a character that stands for nothing
Dropped == "dropped"

\* s.replace(/[^a-z0-9]+/g, '-'): every run of characters outside a-z0-9
\* becomes one hyphen
ReplaceNonAlNum(s) ==
    SelectSeq([i \in 1..Len(s) |->
                  IF s[i] \in AlNum THEN s[i]
                  ELSE IF i = 1 \/ s[i - 1] \in AlNum THEN "-"
                  ELSE Dropped],
              LAMBDA c : c # Dropped)

\* s.replace(/-+/g, '-'): every run of hyphens becomes one hyphen
CollapseHyphens(s) ==
    SelectSeq([i \in 1..Len(s) |->
                  IF s[i] # "-" THEN s[i]
                  ELSE IF i = 1 \/ s[i - 1] # "-" THEN "-"
                  ELSE Dropped],
              LAMBDA c : c # Dropped)

\* s.replace(/^-|-$/g, ''): a hyphen at the start and a hyphen at the end
\* are dropped
StripHyphens(s) ==
    LET t == IF Len(s) > 0 /\ s[1] = "-" THEN Tail(s) ELSE s
    IN  IF Len(t) > 0 /\ t[Len(t)] = "-" THEN SubSeq(t, 1, Len(t) - 1) ELSE t

\* s.substring(0, n)
substring(s, n) == SubSeq(s, 1, Min(Len(s), n))

\* generateSlug: lower case, trim, hyphens for the runs of other characters,
\* single hyphens, none at the ends, cut at MAX_LENGTH
generateSlug(name) ==
    substring(
        StripHyphens(
            CollapseHyphens(
                ReplaceNonAlNum(
                    trim([i \in 1..Len(name) |-> toLowerCase(name[i])])))),
        MAX_LENGTH)

\* isReservedSlug: RESERVED_SLUGS.includes(slug.toLowerCase())
isReservedSlug(slug) ==
    [i \in 1..Len(slug) |-> toLowerCase(slug[i])] \in RESERVED_SLUGS

\* the decimal digits
DigitStr == <<"0", "1", "2", "3", "4", "5", "6", "7", "8", "9">>

\* `${i}` for a loop counter below 100
NumberToString(i) ==
    IF i < 10 THEN <<DigitStr[i + 1]>>
    ELSE <<DigitStr[(i \div 10) + 1], DigitStr[(i % 10) + 1]>>

\* the loop of generateSlugSuggestions from counter i on: the candidate
\* `${baseSlug}-${i}` is kept without its length test
RECURSIVE SuggestLoopUnchecked(_, _, _, _)
SuggestLoopUnchecked(baseSlug, count, i, suggestions) ==
    IF i > count + 1 THEN suggestions
    ELSE LET suggestion == baseSlug \o <<"-">> \o NumberToString(i)
         IN  SuggestLoopUnchecked(baseSlug, count, i + 1,
                                  Append(suggestions, suggestion))

\* the loop of generateSlugSuggestions from counter i on: the candidate
\* `${baseSlug}-${i}` is pushed when it is not longer than MAX_LENGTH
RECURSIVE SuggestLoop(_, _, _, _)
SuggestLoop(baseSlug, count, i, suggestions) ==
    IF i > count + 1 THEN suggestions
    ELSE LET suggestion == baseSlug \o <<"-">> \o NumberToString(i)
         IN  SuggestLoop(baseSlug, count, i + 1,
                         IF Len(suggestion) <= MAX_LENGTH
                             THEN Append(suggestions, suggestion)
                             ELSE suggestions)

\* generateSlugSuggestions: for (let i = 2; i <= count + 1; i++)
generateSlugSuggestions(baseSlug, count) ==
    SuggestLoop(baseSlug, count, 2, << >>)

\* nothing typed, nothing generated, nothing validated, nothing suggested
NoSlugCalc ==
    [name |-> << >>, slug |-> << >>, applied |-> 0,
     checked |-> << >>, validation |-> "none",
     baseSlug |-> << >>, count |-> 0, suggestions |-> << >>, suggested |-> FALSE]

\* ------------------------------------------------------------------- state
VARIABLES
    organization,       \* Local Store table organization
    member,             \* Local Store table member
    invitation,         \* Local Store table invitation
    keycloakSyncState,  \* Local Store table keycloak_sync_state
    kcOrgs,             \* organizations held by the directory
    pc,                 \* position of each request process
    loc,                \* local variables of each request process
    ops,                \* requests started so far
    faults,             \* awaited calls that failed so far
    envs,               \* directory-side changes so far
    now,                \* wall clock, in days
    txt,                \* DNS: the TXT records at _jithub-verify.<domain>
    slugCalc,           \* a name and the slug generateSlug made of it
    recDone,            \* history: store and directory as the last returned sync of a user
                        \* left them, << >> if the directory changed after that sync listed it
    cancelledOk         \* history: invitations a cancel request answered 200 for

vars == <<organization, member, invitation, keycloakSyncState, kcOrgs,
          pc, loc, ops, faults, envs, now, txt, slugCalc, recDone,
          cancelledOk>>

dbVars == <<organization, member, invitation, keycloakSyncState>>
histVars == <<recDone, cancelledOk>>

Zero == [newOrganizations |-> 0, newMemberships |-> 0, acceptedInvitations |-> 0]

\* locals of a request that has not started; user, slug, org, email and role
\* are its inputs, req numbers the request and ids
\* counts its generateId() calls. The fields from faulted on are history:
\*   faulted      an awaited call of the request failed for an outside reason
\*   writes       store writes the request made
\*   afterPrev    (sync) store and directory were as the last returned sync
\*                of the same user left them, at the start and at the listing
\*   afterCancel  (cancel) a cancel of the same invitation had answered 200
\*   overlapped   a request of the same kind for the same slug or user was
\*                running while this one ran
\*   fresh        (create) the slug was in neither system at the start;
\*                (invite) the invitee had no member row and no pending
\*                invitation in the organization at the start
\*   calls        directory and DNS calls the request made, in order
\*   owed         (sync) invitations that were pending for the user's email
\*                in an organization when the sync inserted the membership
\*   kcSeen       (sync) the directory as it was at the listing
\*   listed       (sync) ids of the organizations the directory listed
\*   failedAt     (sync) id of the organization whose step threw
\* The domain routes add the inputs and working locals domain (body.domain),
\* orgData (the rows of the organization select) and token (the token
\* generated or read from metadata), the answer detail err, and the history
\*   seen         domain state of the organization row the request read
\*   kcFailed     a directory call of the request failed and was caught
\*   afterFailed  (verify) a verify of the same organization had been
\*                refused by the DNS check when this one started
\* The check-slug route adds the answer fields available and suggestions and
\* the history
\*   snap         the organization table and the directory as they were when
\*                the check answered available: true
\*   afterCheck   (create) a check of the same slug had answered available:
\*                true, and the organization table and the directory were
\*                as at that answer when the create started
LocInit ==
    [op |-> "none", user |-> "none", slug |-> NoSlug, org |-> Null,
     email |-> NoEmail, role |-> "none", kcOrg |-> Null,
     orgId |-> Null, memberId |-> Null, todo |-> << >>, inv |-> Null,
     invStatus |-> "none", res |-> "none", result |-> Zero,
     req |-> 0, ids |-> 0,
     faulted |-> FALSE, writes |-> 0, afterPrev |-> FALSE,
     afterCancel |-> FALSE, overlapped |-> FALSE, fresh |-> FALSE,
     kcSeen |-> {}, listed |-> {}, failedAt |-> Null,
     calls |-> << >>, owed |-> {},
     domain |-> NoDomain, orgData |-> << >>, token |-> NoToken,
     err |-> "none", seen |-> "-", kcFailed |-> FALSE,
     afterFailed |-> FALSE,
     available |-> FALSE, suggestions |-> << >>, snap |-> << >>,
     afterCheck |-> FALSE]

\* ---------------------------------------------------------- store helpers
\* organization.metadata: null, or the JSON text of an object whose values,
\* in key order, are domainVerificationToken, domainAddedAt and, once the
\* domain was verified, domainVerifiedAt
NoMetadata == << >>

\* JSON.parse(orgData.metadata).domainVerificationToken, JSON.parse('{}') for
\* null metadata
domainVerificationToken(metadata) ==
    IF metadata = NoMetadata THEN NoToken ELSE metadata[1]

\* Keycloak organization attributes custom_domain, domain_verified and
\* domain_verified_at, each a list of values
NoAttributes ==
    [custom_domain |-> << >>, domain_verified |-> << >>,
     domain_verified_at |-> << >>]

OrgRow(id, slug, kc, creator) ==
    [id |-> id, slug |-> slug, keycloakOrgId |-> kc, createdBy |-> creator,
     customDomain |-> NoDomain, domainVerified |-> FALSE,
     metadata |-> NoMetadata]

MemberRow(id, org, u, role) ==
    [id |-> id, organizationId |-> org, userId |-> u, role |-> role]

\* a ledger record keyed by the directory's id instead of the local id
SyncRowKeyedByKc(id, type, entity, kc) ==
    [id |-> id, entityType |-> type, entityId |-> kc, keycloakId |-> kc,
     syncStatus |-> "synced"]

\* a keycloak_sync_state record: entityId is the local id of the entity,
\* keycloakId the directory's id
SyncRow(id, type, entity, kc) ==
    [id |-> id, entityType |-> type, entityId |-> entity, keycloakId |-> kc,
     syncStatus |-> "synced"]

InvitationRow(id, org, email, role, expires, inviter) ==
    [id |-> id, organizationId |-> org, email |-> email, role |-> role,
     status |-> "pending", expiresAt |-> expires, inviterId |-> inviter,
     acceptedAt |-> Null]

KcOrg(id, alias, domains, members) ==
    [id |-> id, alias |-> alias, domains |-> domains, members |-> members,
     attributes |-> NoAttributes]

\* organization without the unique constraint on slug
OrganizationAcceptsAnySlug(rows, row) ==
    \A r \in rows :
        /\ r.id # row.id
        /\ (row.keycloakOrgId # Null => r.keycloakOrgId # row.keycloakOrgId)

\* organization without the unique constraint on keycloak_org_id
OrganizationAcceptsAnyKcId(rows, row) ==
    \A r \in rows :
        /\ r.id # row.id
        /\ (row.slug # NoSlug => r.slug # row.slug)

\* organization: primary key id, slug unique, keycloak_org_id unique
\* (a unique column admits any number of NULLs)
OrganizationAccepts(rows, row) ==
    \A r \in rows :
        /\ r.id # row.id
        /\ (row.slug # NoSlug => r.slug # row.slug)
        /\ (row.keycloakOrgId # Null => r.keycloakOrgId # row.keycloakOrgId)

\* member: primary key id only
MemberAccepts(rows, row) == \A r \in rows : r.id # row.id

\* keycloak_sync_state: primary key id only
SyncStateAccepts(rows, row) == \A r \in rows : r.id # row.id

\* the k-th value generateId() returns to request l: fresh, never repeated
generateId(l, k) == l.req * 10 + l.ids + k

\* the string generateId() returns, used as a slug
IdSlug(n) == <<"i", "d", DigitStr[((n \div 10) % 10) + 1], DigitStr[(n % 10) + 1]>>

\* ------------------------------------------------------ directory helpers
\* searchOrganizationsByAlias: orgs.filter((org) => org.alias === alias)
searchOrganizationsByAlias(alias) == {o \in kcOrgs : o.alias = alias}

\* getOrganizationsForUser: organizations one of whose domains is the
\* domain of the email; membership is not consulted
getOrganizationsForUser(email) ==
    {o \in kcOrgs : EmailDomain(email) \in o.domains}

\* the id the directory gave the account of user u
KcUserId(u) == IF u = "u1" THEN 101 ELSE IF u = "u2" THEN 102 ELSE 103

\* getUserByEmail of the email of u: Null when the directory has no such user
getUserByEmail(u) == IF u \in KcUsers THEN KcUserId(u) ELSE Null

\* the id the directory allocates to the organization request l creates
KcNewId(l) == l.req * 10

\* the id the directory allocates to the n-th organization of its own
KcEnvId(n) == 90 + n

RECURSIVE ListOf(_)
\* a set of directory organizations as the array the directory returns
ListOf(S) ==
    IF S = {} THEN << >>
    ELSE LET m == CHOOSE o \in S : \A x \in S : o.id <= x.id
         IN  <<[id |-> m.id, alias |-> m.alias]>> \o ListOf(S \ {m})

\* ------------------------------------------------------------------- Init
\* the store as ProvisionOrganization(u1, acme) and the invitation of u2
\* leave it, the invitation expiring at the end of day 1, and the directory
\* after the email domain of u2 was attached to the organization
SeedOrganization == {OrgRow(1, Acme, 1, "u1")}
SeedMember == {MemberRow(2, 1, "u1", "owner")}
SeedSyncState == {SyncRow(3, "organization", 1, 1),
                  SyncRow(4, "member", 2, KcUserId("u1"))}
SeedInvitation == {InvitationRow(5, 1, Email("u2"), "member", 1, "u1")}
SeedKcOrgs == {KcOrg(1, Acme, {"d2"}, {KcUserId("u1")})}

Init ==
    /\ \/ /\ organization = {}
          /\ member = {}
          /\ invitation = {}
          /\ keycloakSyncState = {}
          /\ kcOrgs = {}
       \/ /\ organization = SeedOrganization
          /\ member = SeedMember
          /\ invitation = SeedInvitation
          /\ keycloakSyncState = SeedSyncState
          /\ kcOrgs = SeedKcOrgs
    /\ pc = [p \in Procs |-> "idle"]
    /\ loc = [p \in Procs |-> LocInit]
    /\ ops = 0
    /\ faults = 0
    /\ envs = 0
    /\ now = 1
    /\ txt = [d \in DomainNames |-> {}]
    /\ slugCalc = NoSlugCalc
    /\ recDone = [u \in Users |-> << >>]
    /\ cancelledOk = {}

\* the store of the domain routes: as above, or with u2 a member of the
\* organization after the sync of u2 accepted the invitation
SyncedMember == {MemberRow(10, 1, "u2", "member")}
SyncedSyncState == {SyncRow(11, "member", 10, KcUserId("u2"))}
SyncedInvitation ==
    {[i EXCEPT !.status = "accepted", !.acceptedAt = 1] : i \in SeedInvitation}

InitDomain ==
    \/ Init
    \/ /\ organization = SeedOrganization
       /\ member = SeedMember \cup SyncedMember
       /\ invitation = SyncedInvitation
       /\ keycloakSyncState = SeedSyncState \cup SyncedSyncState
       /\ kcOrgs = SeedKcOrgs
       /\ pc = [p \in Procs |-> "idle"]
       /\ loc = [p \in Procs |-> LocInit]
       /\ ops = 0
       /\ faults = 0
       /\ envs = 0
       /\ now = 1
       /\ txt = [d \in DomainNames |-> {}]
       /\ slugCalc = NoSlugCalc
       /\ recDone = [u \in Users |-> << >>]
       /\ cancelledOk = {}

\* ---------------------------------------------------------- step helpers
Idle(p) == pc[p] \in {"idle", "done"}

\* a free process takes the next request; p2 serves only once p1 has
\* (the processes are interchangeable)
MayStart(p) ==
    /\ Idle(p)
    /\ ops < MaxOps
    /\ p = "p1" \/ pc["p1"] # "idle"

\* locals of the request that starts
NewReq(op, u) == [LocInit EXCEPT !.op = op, !.user = u, !.req = ops + 1]

Goto(p, label, l) ==
    /\ pc' = [pc EXCEPT ![p] = label]
    /\ loc' = [loc EXCEPT ![p] = l]

\* request l starts on p at label while the requests on others run
StartReq(p, label, l, others) ==
    /\ pc' = [pc EXCEPT ![p] = label]
    /\ loc' = [q \in Procs |->
           IF q = p THEN [l EXCEPT !.overlapped = (others # {})]
           ELSE IF q \in others THEN [loc[q] EXCEPT !.overlapped = TRUE]
           ELSE loc[q]]

\* the directory or DNS call awaited at a step, "none" at a store step
KcCallAt(label) ==
    CASE label = "c_checkKc"  -> "search"
      [] label = "c_createKc" -> "create"
      [] label = "c_getUser"  -> "getUser"
      [] label = "c_addUser"  -> "addUser"
      [] label = "r_getUser"  -> "getUser"
      [] label = "r_list"     -> "list"
      [] label = "s_getOrg"   -> "get"
      [] label = "v_kc"       -> "invite"
      [] label = "vf_dns"     -> "resolveTxt"
      [] label = "vf_getKc"   -> "get"
      [] label = "vf_updKc"   -> "update"
      [] label = "rm_getKc"   -> "get"
      [] label = "rm_updKc"   -> "update"
      [] OTHER                -> "none"

\* the locals of p once the call awaited at its step was made
Called(p) ==
    IF KcCallAt(pc[p]) = "none" THEN loc[p]
    ELSE [loc[p] EXCEPT !.calls = Append(@, KcCallAt(pc[p]))]

\* the request ends with answer res; its working locals are dropped
Finish(p, l, res) ==
    Goto(p, "done",
         [l EXCEPT !.res = res, !.todo = << >>, !.invStatus = "none",
                   !.req = 0, !.ids = 0, !.kcOrg = Null, !.orgId = Null,
                   !.memberId = Null, !.kcSeen = {}, !.orgData = << >>])

\* --------------------------------------------- POST /api/organization/create
\* step 3: validateSlug, before the first store call
CreateStart(p, u, s) ==
    /\ MayStart(p)
    /\ ops' = ops + 1
    /\ LET l == [NewReq("create", u) EXCEPT
                    !.slug = s,
                    !.fresh = /\ \A r \in organization : r.slug # s
                              /\ searchOrganizationsByAlias(s) = {},
                    !.afterCheck =
                        \E q \in Procs :
                            /\ pc[q] = "done"
                            /\ loc[q].op = "checkSlug"
                            /\ loc[q].slug = s
                            /\ loc[q].available
                            /\ loc[q].snap = <<organization, kcOrgs>>]
           others == {q \in Procs \ {p} : /\ ~Idle(q)
                                          /\ loc[q].op = "create"
                                          /\ loc[q].slug = s}
       IN  IF validateSlug(s) # "valid"
             THEN Finish(p, l, "400")
             ELSE StartReq(p, "c_checkDb", l, others)
    /\ UNCHANGED <<dbVars, kcOrgs, faults, envs, now, slugCalc, txt, histVars>>

\* step 4: slug uniqueness in the store
CreateCheckDb(p) ==
    /\ pc[p] = "c_checkDb"
    /\ IF \E r \in organization : r.slug = loc[p].slug
         THEN Finish(p, loc[p], "409")
         ELSE Goto(p, "c_checkKc", loc[p])
    /\ UNCHANGED <<dbVars, kcOrgs, ops, faults, envs, now, slugCalc, txt, histVars>>

\* an alias check that runs after the directory create
CreateCheckKcAfterCreate(p) ==
    /\ pc[p] = "c_checkKc"
    /\ IF searchOrganizationsByAlias(loc[p].slug) # {}
         THEN /\ kcOrgs' = kcOrgs \cup
                      {KcOrg(KcNewId(loc[p]), loc[p].slug, {}, {})}
              /\ Finish(p, [loc[p] EXCEPT
                                !.calls = @ \o <<"create", "search">>], "409")
         ELSE /\ Goto(p, "c_createKc", Called(p))
              /\ UNCHANGED kcOrgs
    /\ UNCHANGED <<dbVars, ops, faults, envs, now, slugCalc, txt, histVars>>

\* step 5: slug uniqueness in the directory
CreateCheckKc(p) ==
    /\ pc[p] = "c_checkKc"
    /\ IF searchOrganizationsByAlias(loc[p].slug) # {}
         THEN Finish(p, Called(p), "409")
         ELSE Goto(p, "c_createKc", Called(p))
    /\ UNCHANGED <<dbVars, kcOrgs, ops, faults, envs, now, slugCalc, txt, histVars>>

\* step 6: createOrganization; the directory answers a create whose alias
\* it already holds either way (the client only sees response.ok)
CreateKc(p) ==
    /\ pc[p] = "c_createKc"
    /\ \/ /\ kcOrgs' = kcOrgs \cup {KcOrg(KcNewId(loc[p]), loc[p].slug, {}, {})}
          /\ Goto(p, "c_getUser", [Called(p) EXCEPT !.kcOrg = KcNewId(loc[p])])
       \/ /\ searchOrganizationsByAlias(loc[p].slug) # {}
          /\ Finish(p, Called(p), "500")
          /\ UNCHANGED kcOrgs
    /\ UNCHANGED <<dbVars, ops, faults, envs, now, slugCalc, txt, histVars>>

\* a user lookup that deletes the directory organization when it finds no user
CreateGetUserRollsBack(p) ==
    /\ pc[p] = "c_getUser"
    /\ IF getUserByEmail(loc[p].user) = Null
         THEN /\ kcOrgs' = {o \in kcOrgs : o.id # loc[p].kcOrg}
              /\ Finish(p, Called(p), "500")
         ELSE /\ Goto(p, "c_addUser", Called(p))
              /\ UNCHANGED kcOrgs
    /\ UNCHANGED <<dbVars, ops, faults, envs, now, slugCalc, txt, histVars>>

\* step 7: getUserByEmail(session.user.email)
CreateGetUser(p) ==
    /\ pc[p] = "c_getUser"
    /\ IF getUserByEmail(loc[p].user) = Null
         THEN Finish(p, Called(p), "500")
         ELSE Goto(p, "c_addUser", Called(p))
    /\ UNCHANGED <<dbVars, kcOrgs, ops, faults, envs, now, slugCalc, txt, histVars>>

\* step 8: addUserToOrganization
CreateAddUser(p) ==
    /\ pc[p] = "c_addUser"
    /\ kcOrgs' = {IF o.id = loc[p].kcOrg
                    THEN [o EXCEPT !.members = @ \cup {KcUserId(loc[p].user)}]
                    ELSE o : o \in kcOrgs}
    /\ Goto(p, "c_insOrg", Called(p))
    /\ UNCHANGED <<dbVars, ops, faults, envs, now, slugCalc, txt, histVars>>

\* step 9: insert the organization row; a violated constraint throws
CreateInsertOrg(p) ==
    /\ pc[p] = "c_insOrg"
    /\ LET row == OrgRow(generateId(loc[p], 0), loc[p].slug, loc[p].kcOrg,
                         loc[p].user)
       IN  IF OrganizationAccepts(organization, row)
             THEN /\ organization' = organization \cup {row}
                  /\ Goto(p, "c_insOrgSync",
                          [loc[p] EXCEPT !.orgId = row.id, !.ids = @ + 1,
                                         !.writes = @ + 1])
             ELSE /\ Finish(p, loc[p], "500")
                  /\ UNCHANGED organization
    /\ UNCHANGED <<member, invitation, keycloakSyncState, kcOrgs, ops, faults,
                   envs, now, slugCalc, txt, histVars>>

\* step 10: sync state of the organization
CreateInsertOrgSync(p) ==
    /\ pc[p] = "c_insOrgSync"
    /\ keycloakSyncState' = keycloakSyncState \cup
           {SyncRow(generateId(loc[p], 0), "organization", loc[p].orgId,
                    loc[p].kcOrg)}
    /\ Goto(p, "c_insMember", [loc[p] EXCEPT !.ids = @ + 1, !.writes = @ + 1])
    /\ UNCHANGED <<organization, member, invitation, kcOrgs, ops, faults,
                   envs, now, slugCalc, txt, histVars>>

\* a membership row of the creator with the default role
CreateInsertMemberAsMember(p) ==
    /\ pc[p] = "c_insMember"
    /\ LET row == MemberRow(generateId(loc[p], 0), loc[p].orgId, loc[p].user,
                            "member")
       IN  /\ member' = member \cup {row}
           /\ Goto(p, "c_insMemSync",
                   [loc[p] EXCEPT !.memberId = row.id, !.ids = @ + 1,
                                  !.writes = @ + 1])
    /\ UNCHANGED <<organization, invitation, keycloakSyncState, kcOrgs, ops,
                   faults, envs, now, slugCalc, txt, histVars>>

\* step 11: membership row of the creator, role owner
CreateInsertMember(p) ==
    /\ pc[p] = "c_insMember"
    /\ LET row == MemberRow(generateId(loc[p], 0), loc[p].orgId, loc[p].user,
                            "owner")
       IN  /\ member' = member \cup {row}
           /\ Goto(p, "c_insMemSync",
                   [loc[p] EXCEPT !.memberId = row.id, !.ids = @ + 1,
                                  !.writes = @ + 1])
    /\ UNCHANGED <<organization, invitation, keycloakSyncState, kcOrgs, ops,
                   faults, envs, now, slugCalc, txt, histVars>>

\* steps 12 and 13: sync state of the membership, then the 200 answer
CreateInsertMemberSync(p) ==
    /\ pc[p] = "c_insMemSync"
    /\ keycloakSyncState' = keycloakSyncState \cup
           {SyncRow(generateId(loc[p], 0), "member", loc[p].memberId,
                    KcUserId(loc[p].user))}
    /\ Finish(p, [loc[p] EXCEPT !.writes = @ + 1], "200")
    /\ UNCHANGED <<organization, member, invitation, kcOrgs, ops, faults,
                   envs, now, slugCalc, txt, histVars>>

\* ----------------------------------------------------- syncUserOrganizations
Snapshot == <<organization, member, invitation, keycloakSyncState, kcOrgs>>

SyncSteps == {"r_getUser", "r_list", "r_selOrg", "r_insOrg", "r_insOrgSync",
              "r_selMem", "r_insMem", "r_insMemSync", "r_selInv", "r_updInv"}

\* the steps inside  for (const kcOrg of kcOrganizations)
SyncLoopSteps == SyncSteps \ {"r_getUser", "r_list"}

\* return result; seen is the directory as the sync read it
SyncReturn(p, l, seen) ==
    /\ Finish(p, l, "returned")
    /\ recDone' = [recDone EXCEPT ![l.user] =
           IF kcOrgs' = seen
             THEN <<organization', member', invitation', keycloakSyncState',
                    kcOrgs'>>
             ELSE << >>]

\* end of one loop iteration: the next organization, or the return
NextOrg(p, l) ==
    IF Len(l.todo) > 1
      THEN /\ Goto(p, "r_selOrg", [l EXCEPT !.todo = Tail(@), !.orgId = Null,
                                            !.memberId = Null, !.inv = Null])
           /\ UNCHANGED recDone
      ELSE SyncReturn(p, l, l.kcSeen)

\* the OIDC callback calls syncUserOrganizations(user.id, user.email)
SyncStart(p, u) ==
    /\ MayStart(p)
    /\ ops' = ops + 1
    /\ LET others == {q \in Procs \ {p} :
                        pc[q] \in SyncSteps /\ loc[q].user = u}
       IN  StartReq(p, "r_getUser",
                    [NewReq("sync", u) EXCEPT !.afterPrev = (recDone[u] = Snapshot)],
                    others)
    /\ UNCHANGED <<dbVars, kcOrgs, faults, envs, now, slugCalc, txt, histVars>>

\* kcClient.getUserByEmail(userEmail); no directory user: return result
SyncGetUser(p) ==
    /\ pc[p] = "r_getUser"
    /\ UNCHANGED <<dbVars, kcOrgs, ops, faults, envs, now, slugCalc, txt, cancelledOk>>
    /\ IF getUserByEmail(loc[p].user) = Null
         THEN SyncReturn(p, Called(p), kcOrgs)
         ELSE Goto(p, "r_list", Called(p)) /\ UNCHANGED recDone

\* kcClient.getOrganizationsForUser(userEmail)
SyncList(p) ==
    /\ pc[p] = "r_list"
    /\ UNCHANGED <<dbVars, kcOrgs, ops, faults, envs, now, slugCalc, txt, cancelledOk>>
    /\ LET list == ListOf(getOrganizationsForUser(Email(loc[p].user)))
           l == [Called(p) EXCEPT !.todo = list,
                   !.kcSeen = kcOrgs,
                   !.listed = {list[n].id : n \in 1..Len(list)},
                   !.afterPrev = @ /\ recDone[loc[p].user] = Snapshot]
       IN  IF list = << >>
             THEN SyncReturn(p, l, kcOrgs)
             ELSE Goto(p, "r_selOrg", l) /\ UNCHANGED recDone

\* select from organization where keycloakOrgId = kcOrg.id
SyncSelectOrg(p) ==
    /\ pc[p] = "r_selOrg"
    /\ LET kcOrg == Head(loc[p].todo)
           existingOrg == {r \in organization : r.keycloakOrgId = kcOrg.id}
       IN  IF existingOrg = {}
             THEN Goto(p, "r_insOrg", loc[p])
             ELSE \E r \in existingOrg :
                      Goto(p, "r_selMem", [loc[p] EXCEPT !.orgId = r.id])
    /\ UNCHANGED <<dbVars, kcOrgs, ops, faults, envs, now, slugCalc, txt, histVars>>

\* the directory organization as a new organization row of request l:
\* id: generateId(), slug: kcOrg.alias || generateId()
SyncedOrgRow(l, kcOrg) ==
    OrgRow(generateId(l, 0),
           IF kcOrg.alias # NoSlug THEN kcOrg.alias
                                   ELSE IdSlug(generateId(l, 1)),
           kcOrg.id, "none")

\* generateId() calls made for that row
SyncedOrgIds(kcOrg) == IF kcOrg.alias # NoSlug THEN 1 ELSE 2

\* insert the organization row; a violated constraint throws out of the loop
SyncInsertOrg(p) ==
    /\ pc[p] = "r_insOrg"
    /\ LET kcOrg == Head(loc[p].todo)
           row == SyncedOrgRow(loc[p], kcOrg)
       IN  IF OrganizationAccepts(organization, row)
             THEN /\ organization' = organization \cup {row}
                  /\ Goto(p, "r_insOrgSync",
                          [loc[p] EXCEPT !.orgId = row.id,
                                         !.ids = @ + SyncedOrgIds(kcOrg),
                                         !.writes = @ + 1])
             ELSE /\ Finish(p, [loc[p] EXCEPT !.failedAt = kcOrg.id], "thrown")
                  /\ UNCHANGED organization
    /\ UNCHANGED <<member, invitation, keycloakSyncState, kcOrgs, ops, faults,
                   envs, now, slugCalc, txt, histVars>>

\* sync state of the organization; result.newOrganizations++
SyncInsertOrgSync(p) ==
    /\ pc[p] = "r_insOrgSync"
    /\ keycloakSyncState' = keycloakSyncState \cup
           {SyncRow(generateId(loc[p], 0), "organization", loc[p].orgId,
                    Head(loc[p].todo).id)}
    /\ Goto(p, "r_selMem",
            [loc[p] EXCEPT !.ids = @ + 1, !.writes = @ + 1,
                           !.result.newOrganizations = @ + 1])
    /\ UNCHANGED <<organization, member, invitation, kcOrgs, ops, faults,
                   envs, now, slugCalc, txt, histVars>>

\* a membership lookup that only finds owners
existingMembershipOwnersOnly(orgId, userId) ==
    {m \in member : /\ m.organizationId = orgId
                     /\ m.userId = userId
                     /\ m.role = "owner"}

\* select from member where organizationId = orgId and userId = userId
existingMembership(orgId, userId) ==
    {m \in member : m.organizationId = orgId /\ m.userId = userId}

\* existingMembership.length === 0 decides the insert
SyncSelectMember(p) ==
    /\ pc[p] = "r_selMem"
    /\ UNCHANGED <<dbVars, kcOrgs, ops, faults, envs, now, slugCalc, txt, cancelledOk>>
    /\ IF existingMembership(loc[p].orgId, loc[p].user) # {}
         THEN NextOrg(p, loc[p])
         ELSE Goto(p, "r_insMem", loc[p]) /\ UNCHANGED recDone

\* an invitation lookup that matches the inviter instead of the invitee
pendingInvitationOfInviter(orgId, email) ==
    {i \in invitation : /\ i.organizationId = orgId
                        /\ Email(i.inviterId) = email
                        /\ i.status = "pending"}

\* select from invitation where organizationId = orgId and email = email
\* and status = pending
pendingInvitation(orgId, email) ==
    {i \in invitation : /\ i.organizationId = orgId
                        /\ i.email = email
                        /\ i.status = "pending"}

\* insert the membership row, role member
SyncInsertMember(p) ==
    /\ pc[p] = "r_insMem"
    /\ LET row == MemberRow(generateId(loc[p], 0), loc[p].orgId, loc[p].user,
                            "member")
       IN  /\ member' = member \cup {row}
           /\ Goto(p, "r_insMemSync",
                   [loc[p] EXCEPT
                       !.memberId = row.id, !.ids = @ + 1, !.writes = @ + 1,
                       !.owed = @ \cup
                           {i.id : i \in {j \in invitation :
                                /\ j.organizationId = loc[p].orgId
                                /\ j.email = Email(loc[p].user)
                                /\ j.status = "pending"}}])
    /\ UNCHANGED <<organization, invitation, keycloakSyncState, kcOrgs, ops,
                   faults, envs, now, slugCalc, txt, histVars>>

\* sync state of the membership; result.newMemberships++
SyncInsertMemberSync(p) ==
    /\ pc[p] = "r_insMemSync"
    /\ keycloakSyncState' = keycloakSyncState \cup
           {SyncRow(generateId(loc[p], 0), "member", loc[p].memberId,
                    KcUserId(loc[p].user))}
    /\ Goto(p, "r_selInv",
            [loc[p] EXCEPT !.ids = @ + 1, !.writes = @ + 1,
                           !.result.newMemberships = @ + 1])
    /\ UNCHANGED <<organization, member, invitation, kcOrgs, ops, faults,
                   envs, now, slugCalc, txt, histVars>>

\* select a pending invitation of this organization and email, limit 1
SyncSelectInvitation(p) ==
    /\ pc[p] = "r_selInv"
    /\ UNCHANGED <<dbVars, kcOrgs, ops, faults, envs, now, slugCalc, txt, cancelledOk>>
    /\ LET found == pendingInvitation(loc[p].orgId, Email(loc[p].user))
       IN  IF found = {}
             THEN NextOrg(p, loc[p])
             ELSE /\ \E i \in found :
                        Goto(p, "r_updInv", [loc[p] EXCEPT !.inv = i.id])
                  /\ UNCHANGED recDone

\* update invitation set status = accepted, acceptedAt = now where id = ...
\* result.acceptedInvitations++
SyncUpdateInvitation(p) ==
    /\ pc[p] = "r_updInv"
    /\ invitation' = {IF i.id = loc[p].inv
                        THEN [i EXCEPT !.status = "accepted", !.acceptedAt = now]
                        ELSE i : i \in invitation}
    /\ UNCHANGED <<organization, member, keycloakSyncState, kcOrgs,
                   ops, faults, envs, now, slugCalc, txt, cancelledOk>>
    /\ NextOrg(p, [loc[p] EXCEPT !.writes = @ + 1,
                                 !.result.acceptedInvitations = @ + 1])

\* ---------------------------------------------------------- syncOrganization
\* syncOrganization(keycloakOrgId)
SyncOrgStart(p, k) ==
    /\ MayStart(p)
    /\ ops' = ops + 1
    /\ Goto(p, "s_getOrg", [NewReq("syncOrg", "none") EXCEPT !.kcOrg = k])
    /\ UNCHANGED <<dbVars, kcOrgs, faults, envs, now, slugCalc, txt, histVars>>

\* kcClient.getOrganization; an unknown id throws
SyncOrgGet(p) ==
    /\ pc[p] = "s_getOrg"
    /\ LET found == {o \in kcOrgs : o.id = loc[p].kcOrg}
       IN  IF found = {}
             THEN Finish(p, Called(p), "thrown")
             ELSE Goto(p, "s_selOrg", [Called(p) EXCEPT !.todo = ListOf(found)])
    /\ UNCHANGED <<dbVars, kcOrgs, ops, faults, envs, now, slugCalc, txt, histVars>>

\* select from organization where keycloakOrgId = keycloakOrgId
SyncOrgSelect(p) ==
    /\ pc[p] = "s_selOrg"
    /\ LET existingOrg == {r \in organization : r.keycloakOrgId = loc[p].kcOrg}
       IN  IF existingOrg # {}
             THEN \E r \in existingOrg :
                      Finish(p, [loc[p] EXCEPT !.orgId = r.id], "returned")
             ELSE Goto(p, "s_insOrg", loc[p])
    /\ UNCHANGED <<dbVars, kcOrgs, ops, faults, envs, now, slugCalc, txt, histVars>>

\* insert the organization row
SyncOrgInsert(p) ==
    /\ pc[p] = "s_insOrg"
    /\ LET kcOrg == Head(loc[p].todo)
           row == SyncedOrgRow(loc[p], kcOrg)
       IN  IF OrganizationAccepts(organization, row)
             THEN /\ organization' = organization \cup {row}
                  /\ Goto(p, "s_insSync",
                          [loc[p] EXCEPT !.orgId = row.id,
                                         !.ids = @ + SyncedOrgIds(kcOrg),
                                         !.writes = @ + 1])
             ELSE /\ Finish(p, loc[p], "thrown")
                  /\ UNCHANGED organization
    /\ UNCHANGED <<member, invitation, keycloakSyncState, kcOrgs, ops, faults,
                   envs, now, slugCalc, txt, histVars>>

\* sync state of the organization, then return orgId
SyncOrgInsertSync(p) ==
    /\ pc[p] = "s_insSync"
    /\ keycloakSyncState' = keycloakSyncState \cup
           {SyncRow(generateId(loc[p], 0), "organization", loc[p].orgId,
                    loc[p].kcOrg)}
    /\ Finish(p, [loc[p] EXCEPT !.writes = @ + 1], "returned")
    /\ UNCHANGED <<organization, member, invitation, kcOrgs, ops, faults,
                   envs, now, slugCalc, txt, histVars>>

\* ------------------- POST /api/organization/invitation/[invitationId]/cancel
\* a permission check that lets every member through
CanManageAnyRole(role) == TRUE

\* step 3: userRole !== 'owner' && userRole !== 'admin' is refused
CanManage(role) == role = "owner" \/ role = "admin"

\* step 4 without the status check
CanCancelAnyStatus(status) == TRUE

\* step 4: only an invitation read as pending can be cancelled
CanCancel(status) == status = "pending"

CancelStart(p, u, i) ==
    /\ MayStart(p)
    /\ ops' = ops + 1
    /\ Goto(p, "x_selInv",
            [NewReq("cancel", u) EXCEPT !.inv = i,
                                        !.afterCancel = (i \in cancelledOk)])
    /\ UNCHANGED <<dbVars, kcOrgs, faults, envs, now, slugCalc, txt, histVars>>

\* step 2: select the invitation by id
CancelSelectInvitation(p) ==
    /\ pc[p] = "x_selInv"
    /\ LET inv == {i \in invitation : i.id = loc[p].inv}
       IN  IF inv = {}
             THEN Finish(p, loc[p], "404")
             ELSE \E i \in inv :
                      Goto(p, "x_selMem",
                           [loc[p] EXCEPT !.orgId = i.organizationId,
                                          !.invStatus = i.status])
    /\ UNCHANGED <<dbVars, kcOrgs, ops, faults, envs, now, slugCalc, txt, histVars>>

\* steps 3 and 4: the caller's membership, its role, the status read in step 2
CancelSelectMember(p) ==
    /\ pc[p] = "x_selMem"
    /\ LET membership == {m \in member : /\ m.organizationId = loc[p].orgId
                                         /\ m.userId = loc[p].user}
       IN  IF membership = {}
             THEN Finish(p, loc[p], "403")
             ELSE \E m \in membership :
                      IF ~CanManage(m.role) THEN Finish(p, loc[p], "403")
                      ELSE IF ~CanCancel(loc[p].invStatus) THEN Finish(p, loc[p], "400")
                      ELSE Goto(p, "x_upd", loc[p])
    /\ UNCHANGED <<dbVars, kcOrgs, ops, faults, envs, now, slugCalc, txt, histVars>>

\* step 5: update invitation set status = cancelled where id = invitationId
CancelUpdate(p) ==
    /\ pc[p] = "x_upd"
    /\ invitation' = {IF i.id = loc[p].inv
                        THEN [i EXCEPT !.status = "cancelled"]
                        ELSE i : i \in invitation}
    /\ cancelledOk' = cancelledOk \cup {loc[p].inv}
    /\ Finish(p, [loc[p] EXCEPT !.writes = @ + 1], "200")
    /\ UNCHANGED <<organization, member, keycloakSyncState, kcOrgs,
                   ops, faults, envs, now, slugCalc, txt, recDone>>

\* --------------------------------------------- POST /api/organization/invite
\* an organization id no row has
UnknownOrg == 7

\* days an invitation stays open
InviteDays == 7

\* a member lookup that finds nothing
existingMemberNone(orgId, userId) == {}

\* step 5: select from member where organizationId = organizationId and
\* userId = session.user.id (the caller, as in step 4, not the invitee)
existingMember(orgId, userId) ==
    {m \in member : m.organizationId = orgId /\ m.userId = userId}

\* steps 1 and 2: session, body, email format, role
InviteStart(p, u, o, e, r) ==
    /\ MayStart(p)
    /\ ops' = ops + 1
    /\ LET l == [NewReq("invite", u) EXCEPT
                    !.org = o, !.email = e, !.role = r,
                    !.fresh =
                        /\ \A m \in member :
                               m.organizationId = o => Email(m.userId) # e
                        /\ \A i \in invitation :
                               (i.organizationId = o /\ i.email = e)
                                   => i.status # "pending"]
           others == {q \in Procs \ {p} : /\ ~Idle(q)
                                          /\ loc[q].op = "invite"
                                          /\ loc[q].org = o
                                          /\ loc[q].email = e}
       IN  IF o = Null \/ e = NoEmail THEN Finish(p, l, "400")
           ELSE IF ~emailRegex(e) THEN Finish(p, l, "400")
           ELSE IF r \notin validRoles THEN Finish(p, l, "400")
           ELSE StartReq(p, "v_selOrg", l, others)
    /\ UNCHANGED <<dbVars, kcOrgs, faults, envs, now, slugCalc, txt, histVars>>

\* step 3: select the organization by id
InviteSelectOrg(p) ==
    /\ pc[p] = "v_selOrg"
    /\ LET org == {o \in organization : o.id = loc[p].org}
       IN  IF org = {}
             THEN Finish(p, loc[p], "404")
             ELSE \E orgData \in org :
                      Goto(p, "v_selMem",
                           [loc[p] EXCEPT !.kcOrg = orgData.keycloakOrgId])
    /\ UNCHANGED <<dbVars, kcOrgs, ops, faults, envs, now, slugCalc, txt, histVars>>

\* step 4: the caller's membership and its role
InviteSelectMember(p) ==
    /\ pc[p] = "v_selMem"
    /\ LET membership == {m \in member : /\ m.organizationId = loc[p].org
                                         /\ m.userId = loc[p].user}
       IN  IF membership = {}
             THEN Finish(p, loc[p], "403")
             ELSE \E m \in membership :
                      IF ~CanManage(m.role) THEN Finish(p, loc[p], "403")
                      ELSE Goto(p, "v_selExisting", loc[p])
    /\ UNCHANGED <<dbVars, kcOrgs, ops, faults, envs, now, slugCalc, txt, histVars>>

\* steps 5 to 9, one awaited call at a time:
\*   v_selExisting  step 5, the already-a-member check
\*   v_selInv       step 6, the pending invitation of (organizationId, email),
\*                  then the keycloakOrgId of the organization read in step 3
\*   v_kc           step 7, inviteUserToOrganization (the directory mails the
\*                  invitee; its organizations do not change)
\*   v_ins          steps 8 and 9, insert the invitation row, answer 200
InviteSend(p) ==
    /\ pc[p] \in {"v_selExisting", "v_selInv", "v_kc", "v_ins"}
    /\ UNCHANGED <<organization, member, keycloakSyncState, kcOrgs, ops,
                   faults, envs, now, slugCalc, txt, histVars>>
    /\ CASE pc[p] = "v_selExisting" ->
               /\ IF existingMember(loc[p].org, loc[p].user) # {}
                    THEN Finish(p, loc[p], "409_member")
                    ELSE Goto(p, "v_selInv", loc[p])
               /\ UNCHANGED invitation
         [] pc[p] = "v_selInv" ->
               /\ IF pendingInvitation(loc[p].org, loc[p].email) # {}
                    THEN Finish(p, loc[p], "409_invited")
                    ELSE IF loc[p].kcOrg = Null
                           THEN Finish(p, loc[p], "500")
                           ELSE Goto(p, "v_kc", loc[p])
               /\ UNCHANGED invitation
         [] pc[p] = "v_kc" ->
               /\ Goto(p, "v_ins", Called(p))
               /\ UNCHANGED invitation
         [] pc[p] = "v_ins" ->
               LET row == InvitationRow(generateId(loc[p], 0), loc[p].org,
                                        loc[p].email, loc[p].role,
                                        now + InviteDays, loc[p].user)
               IN  /\ invitation' = invitation \cup {row}
                   /\ Finish(p, [loc[p] EXCEPT !.inv = row.id,
                                               !.writes = @ + 1], "200")

\* ------------------------- /api/organization/[organizationId]/domain[/verify]
\* requests of the organization's owner started in one behaviour
MaxDomainOps == 3

\* the custom-domain state of an organization row
DomainState(r) ==
    IF r.customDomain = NoDomain THEN "none"
    ELSE IF r.domainVerified THEN "verified"
    ELSE "pending"

\* a permission check that lets every member through
OwnerOnlyAnyRole(role) == TRUE

\* membership[0].role !== 'owner' is refused
OwnerOnly(role) == role = "owner"

DomainOps == {"addDomain", "verifyDomain", "removeDomain"}

\* the requests of the domain routes for organization o that run beside p
DomainRunning(p, o) ==
    {q \in Procs \ {p} : ~Idle(q) /\ loc[q].op \in DomainOps /\ loc[q].org = o}

\* a free process takes the next request; p2 serves only once p1 has
DomainMayStart(p) ==
    /\ Idle(p)
    /\ p = "p1" \/ pc["p1"] # "idle"

\* select from organization where id = organizationId limit 1
selectOrganization(o) == {r \in organization : r.id = o}

\* select from member where organizationId = ... and userId = session.user.id
selectMembership(o, u) ==
    {m \in member : m.organizationId = o /\ m.userId = u}

\* ---- POST domain: add a custom domain
\* steps 1 and 2: session, body.domain, domainRegex
AddStart(p, u, o, d) ==
    /\ DomainMayStart(p)
    /\ ops' = ops + 1
    /\ LET l == [NewReq("addDomain", u) EXCEPT !.org = o, !.domain = d]
       IN  IF d = NoDomain THEN Finish(p, l, "400")
           ELSE IF ~domainRegex(d) THEN Finish(p, l, "400")
           ELSE StartReq(p, "ad_selOrg", l, DomainRunning(p, o))
    /\ UNCHANGED <<dbVars, kcOrgs, faults, envs, now, slugCalc, txt, histVars>>

\* step 3: the organization row
AddSelectOrg(p) ==
    /\ pc[p] = "ad_selOrg"
    /\ LET org == selectOrganization(loc[p].org)
       IN  IF org = {}
             THEN Finish(p, loc[p], "404")
             ELSE \E orgData \in org :
                      Goto(p, "ad_selMem",
                           [loc[p] EXCEPT !.orgData = <<orgData>>,
                                          !.seen = DomainState(orgData)])
    /\ UNCHANGED <<dbVars, kcOrgs, ops, faults, envs, now, slugCalc, txt, histVars>>

\* steps 4 and 5: the caller must be owner; the row read in step 3 must
\* have no customDomain
AddSelectMember(p) ==
    /\ pc[p] = "ad_selMem"
    /\ LET membership == selectMembership(loc[p].org, loc[p].user)
           orgData == loc[p].orgData[1]
       IN  IF membership = {}
             THEN Finish(p, loc[p], "403")
             ELSE \E m \in membership :
                      IF ~OwnerOnly(m.role) THEN Finish(p, loc[p], "403")
                      ELSE IF orgData.customDomain # NoDomain
                             THEN Finish(p, loc[p], "409")
                      ELSE Goto(p, "ad_upd", loc[p])
    /\ UNCHANGED <<dbVars, kcOrgs, ops, faults, envs, now, slugCalc, txt, histVars>>

\* steps 6 to 8: generateVerificationToken, update organization set
\* customDomain, domainVerified = false, metadata where id = organizationId
AddUpdate(p) ==
    /\ pc[p] = "ad_upd"
    /\ \E verificationToken \in Tokens :
           /\ organization' =
                  {IF r.id = loc[p].org
                     THEN [r EXCEPT !.customDomain = loc[p].domain,
                                    !.domainVerified = FALSE,
                                    !.metadata = <<verificationToken, now>>]
                     ELSE r : r \in organization}
           /\ Finish(p, [loc[p] EXCEPT !.token = verificationToken,
                                       !.writes = @ + 1], "200")
    /\ UNCHANGED <<member, invitation, keycloakSyncState, kcOrgs, ops, faults,
                   envs, now, slugCalc, txt, histVars>>

\* ---- verifyDomainOwnership (lib/dns/verification.ts)
ErrTokenNotFound == "Verification token not found in DNS TXT records"
ErrNotFound == "DNS record not found. Please ensure you have created the TXT record."
ErrNoData == "No TXT records found for this domain."

\* dns.resolveTxt of _jithub-verify.<domain>: the ways it can end while the
\* resolver works; a name without TXT records rejects
resolveTxt(d) == IF txt[d] = {} THEN {"ENOTFOUND", "ENODATA"} ELSE {"ok"}

\* a check that reports every failure with one message
verifyDomainOwnershipOneMessage(outcome, records, expectedToken) ==
    IF outcome = "ok" /\ expectedToken \in records
      THEN [verified |-> TRUE, error |-> "none"]
      ELSE [verified |-> FALSE, error |-> ErrTokenNotFound]

\* the result for an outcome of resolveTxt (an error code, or "ok" with the
\* record values); any other error is reported by its own message
verifyDomainOwnership(outcome, records, expectedToken) ==
    IF outcome = "ok"
      THEN IF expectedToken \in records
             THEN [verified |-> TRUE, error |-> "none"]
             ELSE [verified |-> FALSE, error |-> ErrTokenNotFound]
    ELSE IF outcome = "ENOTFOUND" THEN [verified |-> FALSE, error |-> ErrNotFound]
    ELSE IF outcome = "ENODATA" THEN [verified |-> FALSE, error |-> ErrNoData]
    ELSE [verified |-> FALSE, error |-> outcome]

\* ---- POST domain/verify
VerifyStart(p, u, o) ==
    /\ DomainMayStart(p)
    /\ ops' = ops + 1
    /\ StartReq(p, "vf_selOrg",
                [NewReq("verifyDomain", u) EXCEPT
                    !.org = o,
                    !.afterFailed =
                        \E q \in Procs : /\ pc[q] = "done"
                                         /\ loc[q].op = "verifyDomain"
                                         /\ loc[q].org = o
                                         /\ loc[q].res = "400"
                                         /\ "resolveTxt" \in
                                                {loc[q].calls[n] :
                                                    n \in 1..Len(loc[q].calls)}],
                DomainRunning(p, o))
    /\ UNCHANGED <<dbVars, kcOrgs, faults, envs, now, slugCalc, txt, histVars>>

\* step 2: the organization row
VerifySelectOrg(p) ==
    /\ pc[p] = "vf_selOrg"
    /\ LET org == selectOrganization(loc[p].org)
       IN  IF org = {}
             THEN Finish(p, loc[p], "404")
             ELSE \E orgData \in org :
                      Goto(p, "vf_selMem",
                           [loc[p] EXCEPT !.orgData = <<orgData>>,
                                          !.seen = DomainState(orgData)])
    /\ UNCHANGED <<dbVars, kcOrgs, ops, faults, envs, now, slugCalc, txt, histVars>>

\* a verify that does not look at domainVerified
AlreadyVerifiedNever(orgData) == FALSE

\* step 5: if (orgData.domainVerified)
AlreadyVerified(orgData) == orgData.domainVerified

\* steps 3 to 6: the caller must be owner; the row read in step 2 must have
\* a customDomain, is answered at once when already verified, and must
\* carry a token
VerifySelectMember(p) ==
    /\ pc[p] = "vf_selMem"
    /\ LET membership == selectMembership(loc[p].org, loc[p].user)
           orgData == loc[p].orgData[1]
           verificationToken == domainVerificationToken(orgData.metadata)
       IN  IF membership = {}
             THEN Finish(p, loc[p], "403")
             ELSE \E m \in membership :
                      IF ~OwnerOnly(m.role) THEN Finish(p, loc[p], "403")
                      ELSE IF orgData.customDomain = NoDomain
                             THEN Finish(p, [loc[p] EXCEPT !.err = "No custom domain configured"], "400")
                      ELSE IF AlreadyVerified(orgData)
                             THEN Finish(p, [loc[p] EXCEPT !.err = "Domain already verified"], "200")
                      ELSE IF verificationToken = NoToken
                             THEN Finish(p, [loc[p] EXCEPT !.err = "Verification token not found. Please add domain again."], "400")
                      ELSE Goto(p, "vf_dns",
                                [loc[p] EXCEPT !.token = verificationToken])
    /\ UNCHANGED <<dbVars, kcOrgs, ops, faults, envs, now, slugCalc, txt, histVars>>

\* step 7: verifyDomainOwnership(orgData.customDomain, verificationToken)
VerifyDns(p) ==
    /\ pc[p] = "vf_dns"
    /\ LET d == loc[p].orgData[1].customDomain
       IN  \E outcome \in resolveTxt(d) :
               LET verificationResult ==
                       verifyDomainOwnership(outcome, txt[d], loc[p].token)
               IN  IF ~verificationResult.verified
                     THEN Finish(p, [Called(p) EXCEPT
                                        !.err = verificationResult.error],
                                 "400")
                     ELSE Goto(p, "vf_upd", Called(p))
    /\ UNCHANGED <<dbVars, kcOrgs, ops, faults, envs, now, slugCalc, txt, histVars>>

\* a verify whose store update leaves domainVerified alone
VerifyUpdateKeepsFlag(p) ==
    /\ pc[p] = "vf_upd"
    /\ LET orgData == loc[p].orgData[1]
       IN  /\ organization' =
                  {IF r.id = loc[p].org
                     THEN [r EXCEPT !.metadata = <<orgData.metadata[1],
                                                   orgData.metadata[2], now>>]
                     ELSE r : r \in organization}
           /\ IF orgData.keycloakOrgId # Null
                THEN Goto(p, "vf_getKc", [loc[p] EXCEPT !.writes = @ + 1])
                ELSE Finish(p, [loc[p] EXCEPT !.writes = @ + 1], "200")
    /\ UNCHANGED <<member, invitation, keycloakSyncState, kcOrgs, ops, faults,
                   envs, now, slugCalc, txt, histVars>>

\* step 8: update organization set domainVerified = true, metadata = the
\* metadata read in step 2 with domainVerifiedAt, where id = organizationId
VerifyUpdate(p) ==
    /\ pc[p] = "vf_upd"
    /\ LET orgData == loc[p].orgData[1]
       IN  /\ organization' =
                  {IF r.id = loc[p].org
                     THEN [r EXCEPT !.domainVerified = TRUE,
                                    !.metadata = <<orgData.metadata[1],
                                                   orgData.metadata[2], now>>]
                     ELSE r : r \in organization}
           /\ IF orgData.keycloakOrgId # Null
                THEN Goto(p, "vf_getKc", [loc[p] EXCEPT !.writes = @ + 1])
                ELSE Finish(p, [loc[p] EXCEPT !.writes = @ + 1], "200")
    /\ UNCHANGED <<member, invitation, keycloakSyncState, kcOrgs, ops, faults,
                   envs, now, slugCalc, txt, histVars>>

\* step 9: kcClient.getOrganization; null for an unknown id
VerifyGetKc(p) ==
    /\ pc[p] = "vf_getKc"
    /\ LET found == {o \in kcOrgs : o.id = loc[p].orgData[1].keycloakOrgId}
       IN  IF found = {}
             THEN Finish(p, Called(p), "200")
             ELSE \E kcOrg \in found :
                      Goto(p, "vf_updKc", [Called(p) EXCEPT !.todo = <<kcOrg>>])
    /\ UNCHANGED <<dbVars, kcOrgs, ops, faults, envs, now, slugCalc, txt, histVars>>

\* the organization put by updateOrganization(id, updates): the members are
\* not part of the representation
PutOrganization(id, updates) ==
    {IF o.id = id
       THEN [o EXCEPT !.domains = updates.domains,
                      !.attributes = updates.attributes]
       ELSE o : o \in kcOrgs}

\* step 9: kcClient.updateOrganization with the organization read, its
\* domains the verified domain and its attributes custom_domain,
\* domain_verified and domain_verified_at set
VerifyUpdateKc(p) ==
    /\ pc[p] = "vf_updKc"
    /\ LET orgData == loc[p].orgData[1]
           kcOrg == loc[p].todo[1]
       IN  kcOrgs' = PutOrganization(orgData.keycloakOrgId,
                        [domains |-> {orgData.customDomain},
                         attributes |->
                             [kcOrg.attributes EXCEPT
                                 !.custom_domain = <<orgData.customDomain>>,
                                 !.domain_verified = <<"true">>,
                                 !.domain_verified_at = <<now>>]])
    /\ Finish(p, Called(p), "200")
    /\ UNCHANGED <<dbVars, ops, faults, envs, now, slugCalc, txt, histVars>>

\* ---- DELETE domain: remove the custom domain
RemoveStart(p, u, o) ==
    /\ DomainMayStart(p)
    /\ ops' = ops + 1
    /\ StartReq(p, "rm_selMem",
                [NewReq("removeDomain", u) EXCEPT !.org = o],
                DomainRunning(p, o))
    /\ UNCHANGED <<dbVars, kcOrgs, faults, envs, now, slugCalc, txt, histVars>>

\* step 2: the caller must be owner
RemoveSelectMember(p) ==
    /\ pc[p] = "rm_selMem"
    /\ LET membership == selectMembership(loc[p].org, loc[p].user)
       IN  IF membership = {}
             THEN Finish(p, loc[p], "403")
             ELSE \E m \in membership :
                      IF ~OwnerOnly(m.role) THEN Finish(p, loc[p], "403")
                      ELSE Goto(p, "rm_selOrg", loc[p])
    /\ UNCHANGED <<dbVars, kcOrgs, ops, faults, envs, now, slugCalc, txt, histVars>>

\* step 3: the organization row; step 4 runs when it has a keycloakOrgId
\* and a customDomain
RemoveSelectOrg(p) ==
    /\ pc[p] = "rm_selOrg"
    /\ LET org == selectOrganization(loc[p].org)
       IN  IF org = {}
             THEN Finish(p, loc[p], "404")
             ELSE \E orgData \in org :
                      Goto(p,
                           IF /\ orgData.keycloakOrgId # Null
                              /\ orgData.customDomain # NoDomain
                             THEN "rm_getKc" ELSE "rm_upd",
                           [loc[p] EXCEPT !.orgData = <<orgData>>,
                                          !.seen = DomainState(orgData)])
    /\ UNCHANGED <<dbVars, kcOrgs, ops, faults, envs, now, slugCalc, txt, histVars>>

\* step 4: kcClient.getOrganization; null for an unknown id
RemoveGetKc(p) ==
    /\ pc[p] = "rm_getKc"
    /\ LET found == {o \in kcOrgs : o.id = loc[p].orgData[1].keycloakOrgId}
       IN  IF found = {}
             THEN Goto(p, "rm_upd", Called(p))
             ELSE \E kcOrg \in found :
                      Goto(p, "rm_updKc", [Called(p) EXCEPT !.todo = <<kcOrg>>])
    /\ UNCHANGED <<dbVars, kcOrgs, ops, faults, envs, now, slugCalc, txt, histVars>>

\* step 4: kcClient.updateOrganization with the organization read, without
\* domains, custom_domain emptied and domain_verified false
RemoveUpdateKc(p) ==
    /\ pc[p] = "rm_updKc"
    /\ LET kcOrg == loc[p].todo[1]
       IN  kcOrgs' = PutOrganization(loc[p].orgData[1].keycloakOrgId,
                        [domains |-> {},
                         attributes |->
                             [kcOrg.attributes EXCEPT
                                 !.custom_domain = << >>,
                                 !.domain_verified = <<"false">>]])
    /\ Goto(p, "rm_upd", [Called(p) EXCEPT !.todo = << >>])
    /\ UNCHANGED <<dbVars, ops, faults, envs, now, slugCalc, txt, histVars>>

\* a remove that keeps the stored token
RemoveUpdateKeepsToken(p) ==
    /\ pc[p] = "rm_upd"
    /\ organization' =
           {IF r.id = loc[p].org
              THEN [r EXCEPT !.customDomain = NoDomain,
                             !.domainVerified = FALSE]
              ELSE r : r \in organization}
    /\ Finish(p, [loc[p] EXCEPT !.writes = @ + 1], "200")
    /\ UNCHANGED <<member, invitation, keycloakSyncState, kcOrgs, ops, faults,
                   envs, now, slugCalc, txt, histVars>>

\* step 5: update organization set customDomain = null, domainVerified =
\* false, metadata = null where id = organizationId
RemoveUpdate(p) ==
    /\ pc[p] = "rm_upd"
    /\ organization' =
           {IF r.id = loc[p].org
              THEN [r EXCEPT !.customDomain = NoDomain,
                             !.domainVerified = FALSE,
                             !.metadata = NoMetadata]
              ELSE r : r \in organization}
    /\ Finish(p, [loc[p] EXCEPT !.writes = @ + 1], "200")
    /\ UNCHANGED <<member, invitation, keycloakSyncState, kcOrgs, ops, faults,
                   envs, now, slugCalc, txt, histVars>>

\* the awaited calls whose failure the domain routes catch: the DNS lookup
\* (inside verifyDomainOwnership) and the directory calls of verify and remove
CaughtSteps == {"vf_dns", "vf_getKc", "vf_updKc", "rm_getKc", "rm_updKc"}

\* a caught failure that ends the request with 500
CaughtFaultFatal(p) ==
    /\ pc[p] \in CaughtSteps
    /\ faults < MaxFaults
    /\ faults' = faults + 1
    /\ Finish(p, [Called(p) EXCEPT !.kcFailed = (pc[p] # "vf_dns")], "500")
    /\ UNCHANGED <<dbVars, kcOrgs, ops, envs, now, slugCalc, txt, histVars>>

\* one of these calls rejects: the resolver error is answered 400 with its
\* message, a failed directory call of verify is logged and the answer
\* stays 200, a failed directory call of remove is logged and step 5 runs
CaughtFault(p) ==
    /\ pc[p] \in CaughtSteps
    /\ faults < MaxFaults
    /\ faults' = faults + 1
    /\ CASE pc[p] = "vf_dns" ->
               Finish(p, [Called(p) EXCEPT
                             !.err = verifyDomainOwnership("ETIMEOUT", {},
                                         loc[p].token).error],
                      "400")
         [] pc[p] \in {"vf_getKc", "vf_updKc"} ->
               Finish(p, [Called(p) EXCEPT !.kcFailed = TRUE], "200")
         [] pc[p] \in {"rm_getKc", "rm_updKc"} ->
               Goto(p, "rm_upd", [Called(p) EXCEPT !.kcFailed = TRUE,
                                                   !.todo = << >>])
    /\ UNCHANGED <<dbVars, kcOrgs, ops, envs, now, slugCalc, txt, histVars>>

\* the holder of domain d, after an organization claimed it, publishes the
\* TXT record t at _jithub-verify.d
DnsPublish(d, t) ==
    /\ envs < MaxEnv
    /\ \E r \in organization : r.customDomain = d
    /\ envs' = envs + 1
    /\ txt' = [txt EXCEPT ![d] = {t}]
    /\ UNCHANGED <<dbVars, kcOrgs, pc, loc, ops, faults, now, slugCalc, histVars>>

\* ------------------------------------------ GET /api/organization/check-slug
\* the slug parameter, validateSlug and isReservedSlug, before the store
\* call; the route reads no session. Suggestions are made with the default
\* count of 3
CheckSlugStart(p, s) ==
    /\ MayStart(p)
    /\ ops' = ops + 1
    /\ LET l == [NewReq("checkSlug", "none") EXCEPT !.slug = s]
           suggested == [l EXCEPT !.suggestions = generateSlugSuggestions(s, 3)]
       IN  IF s = NoSlug
             THEN Finish(p, [l EXCEPT !.err = "required"], "400")
           ELSE IF validateSlug(s) # "valid"
             THEN Finish(p, [suggested EXCEPT !.err = validateSlug(s)], "400")
           ELSE IF isReservedSlug(s)
             THEN Finish(p, [suggested EXCEPT !.err = "reserved"], "200")
           ELSE StartReq(p, "k_select", l, {})
    /\ UNCHANGED <<dbVars, kcOrgs, faults, envs, now, slugCalc, txt, histVars>>

\* the organization select by slug and the answer
CheckSlugSelect(p) ==
    /\ pc[p] = "k_select"
    /\ IF \E r \in organization : r.slug = loc[p].slug
         THEN Finish(p, [loc[p] EXCEPT
                             !.err = "taken",
                             !.suggestions =
                                 generateSlugSuggestions(loc[p].slug, 3)],
                     "200")
         ELSE Finish(p, [loc[p] EXCEPT !.available = TRUE,
                                       !.snap = <<organization, kcOrgs>>],
                     "200")
    /\ UNCHANGED <<dbVars, kcOrgs, ops, faults, envs, now, slugCalc, txt, histVars>>

\* ------------------------------------------------------------ lib/utils/slug
\* letters a name starts with, characters that follow them, applications
\* of generateSlug to one name
MaxPad == 50
MaxTail == 3
MaxApply == 2

\* characters of the end of a name: a letter, a capital, a digit, a blank,
\* a hyphen, a punctuation mark
TailChars == {"a", "B", "1", " ", "-", "!"}
Tails == UNION {[1..n -> TailChars] : n \in 0..MaxTail}
Pad(k) == [i \in 1..k |-> "a"]

\* the names typed into the organization form
NameInputs == {Pad(k) \o t : k \in 0..MaxPad, t \in Tails}

\* generateSlug is applied to the name, then to its own result
ApplyGenerateSlug ==
    /\ slugCalc.applied < MaxApply
    /\ slugCalc' =
           [slugCalc EXCEPT
               !.slug = generateSlug(IF slugCalc.applied = 0
                                       THEN slugCalc.name ELSE slugCalc.slug),
               !.applied = @ + 1]
    /\ UNCHANGED <<dbVars, kcOrgs, pc, loc, ops, faults, envs, now, txt,
                   histVars>>

\* validateSlug is applied to the slug to check
ApplyValidateSlug ==
    /\ slugCalc.validation = "none"
    /\ slugCalc' = [slugCalc EXCEPT !.validation = validateSlug(slugCalc.checked)]
    /\ UNCHANGED <<dbVars, kcOrgs, pc, loc, ops, faults, envs, now, txt,
                   histVars>>

\* suggestions asked for at most
MaxCount == 10

\* generateSlugSuggestions is applied to the base slug and the count
ApplyGenerateSlugSuggestions ==
    /\ ~slugCalc.suggested
    /\ slugCalc' =
           [slugCalc EXCEPT
               !.suggestions = generateSlugSuggestions(slugCalc.baseSlug,
                                                       slugCalc.count),
               !.suggested = TRUE]
    /\ UNCHANGED <<dbVars, kcOrgs, pc, loc, ops, faults, envs, now, txt,
                   histVars>>

\* an awaited directory or store call rejects: the route handlers answer 500
\* from their catch block, the sync functions rethrow
Fault(p) ==
    /\ ~Idle(p)
    /\ pc[p] \notin CaughtSteps
    /\ faults < MaxFaults
    /\ faults' = faults + 1
    /\ Finish(p, [Called(p) EXCEPT
                      !.faulted = TRUE,
                      !.failedAt = IF pc[p] \in SyncLoopSteps
                                     THEN Head(loc[p].todo).id ELSE Null],
              IF loc[p].op \in {"sync", "syncOrg"} THEN "thrown" ELSE "500")
    /\ UNCHANGED <<dbVars, kcOrgs, ops, envs, now, slugCalc, txt, histVars>>

\* aliases of organizations created in the directory itself
EnvAliases == {NoSlug, Acme}

\* an organization is created in the directory with an email domain
EnvCreateOrg(alias, d) ==
    /\ envs < MaxEnv
    /\ envs' = envs + 1
    /\ kcOrgs' = kcOrgs \cup {KcOrg(KcEnvId(envs + 1), alias, {d}, {})}
    /\ UNCHANGED <<dbVars, pc, loc, ops, faults, now, slugCalc, txt, histVars>>

\* a day passes
Tick ==
    /\ now < MaxNow
    /\ now' = now + 1
    /\ UNCHANGED <<dbVars, kcOrgs, pc, loc, ops, faults, envs, txt, slugCalc,
                   histVars>>

\* ids a caller may name
InvitationIds == {i.id : i \in invitation} \cup {Null}
KcOrgIds == {o.id : o \in kcOrgs} \cup {Null}
OrgIds == {o.id : o \in organization} \cup {Null, UnknownOrg}

\* invite requests: the callers, emails and roles tried
InviteUsers == {"u1", "u2"}
EmailInputs == {Email("u2"), Email("u3"), BadEmail}
RoleInputs == {"member", "guest"}

\* slugs given to the check: none, too short, badly formatted, two valid
\* ones and two reserved words
CheckSlugInputs ==
    SlugInputs \cup {NoSlug, <<"a", "b">>, <<"a", "_", "b">>,
                     <<"a", "d", "m", "i", "n">>}

\* domain requests: the owner and a user who is not, the organizations
\* and the domains tried
DomainUsers == {"u1", "u2"}
DomainOrgIds == {o.id : o \in organization} \cup {UnknownOrg}
DomainInputs == DomainNames \cup {NoDomain, BadDomain}

\* ------------------------------------------------------------------- Next
CreateStep(p) ==
    \/ \E u \in CreateUsers, s \in SlugInputs : CreateStart(p, u, s)
    \/ CreateCheckDb(p)
    \/ CreateCheckKc(p)
    \/ CreateKc(p)
    \/ CreateGetUser(p)
    \/ CreateAddUser(p)
    \/ CreateInsertOrg(p)
    \/ CreateInsertOrgSync(p)
    \/ CreateInsertMember(p)
    \/ CreateInsertMemberSync(p)

SyncStep(p) ==
    \/ \E u \in SyncUsers : SyncStart(p, u)
    \/ SyncGetUser(p)
    \/ SyncList(p)
    \/ SyncSelectOrg(p)
    \/ SyncInsertOrg(p)
    \/ SyncInsertOrgSync(p)
    \/ SyncSelectMember(p)
    \/ SyncInsertMember(p)
    \/ SyncInsertMemberSync(p)
    \/ SyncSelectInvitation(p)
    \/ SyncUpdateInvitation(p)

SyncOrgStep(p) ==
    \/ \E k \in KcOrgIds : SyncOrgStart(p, k)
    \/ SyncOrgGet(p)
    \/ SyncOrgSelect(p)
    \/ SyncOrgInsert(p)
    \/ SyncOrgInsertSync(p)

CancelStep(p) ==
    \/ \E u \in CancelUsers, i \in InvitationIds : CancelStart(p, u, i)
    \/ CancelSelectInvitation(p)
    \/ CancelSelectMember(p)
    \/ CancelUpdate(p)

InviteStep(p) ==
    \/ \E u \in InviteUsers, o \in OrgIds, e \in EmailInputs, r \in RoleInputs :
           InviteStart(p, u, o, e, r)
    \/ InviteSelectOrg(p)
    \/ InviteSelectMember(p)
    \/ InviteSend(p)

CheckSlugStep(p) ==
    \/ \E s \in CheckSlugInputs : CheckSlugStart(p, s)
    \/ CheckSlugSelect(p)

\* a request of the domain routes starts, its principal, organization and
\* domain drawn from U, O and D
DomainStart(p, U, O, D) ==
    \E u \in U, o \in O :
        \/ \E d \in D : AddStart(p, u, o, d)
        \/ VerifyStart(p, u, o)
        \/ RemoveStart(p, u, o)

AddRun(p) ==
    \/ AddSelectOrg(p)
    \/ AddSelectMember(p)
    \/ AddUpdate(p)

VerifyRun(p) ==
    \/ VerifySelectOrg(p)
    \/ VerifySelectMember(p)
    \/ VerifyDns(p)
    \/ VerifyUpdate(p)
    \/ VerifyGetKc(p)
    \/ VerifyUpdateKc(p)

RemoveRun(p) ==
    \/ RemoveSelectMember(p)
    \/ RemoveSelectOrg(p)
    \/ RemoveGetKc(p)
    \/ RemoveUpdateKc(p)
    \/ RemoveUpdate(p)

DomainStep(p) ==
    \/ ops < MaxOps /\ DomainStart(p, DomainUsers, DomainOrgIds, DomainInputs)
    \/ AddRun(p)
    \/ VerifyRun(p)
    \/ RemoveRun(p)

DnsStep == \E d \in DomainNames, t \in Tokens : DnsPublish(d, t)

EnvStep == \E a \in EnvAliases, d \in Domains : EnvCreateOrg(a, d)

Next ==
    \/ \E p \in Procs : CreateStep(p)
    \/ \E p \in Procs : SyncStep(p)
    \/ \E p \in Procs : SyncOrgStep(p)
    \/ \E p \in Procs : CancelStep(p)
    \/ \E p \in Procs : InviteStep(p)
    \/ \E p \in Procs : DomainStep(p)
    \/ \E p \in Procs : CheckSlugStep(p)
    \/ \E p \in Procs : Fault(p)
    \/ \E p \in Procs : CaughtFault(p)
    \/ EnvStep
    \/ DnsStep
    \/ Tick
    \/ ApplyGenerateSlug
    \/ ApplyValidateSlug
    \/ ApplyGenerateSlugSuggestions

Spec == Init /\ [][Next]_vars

\* the organization and member tables: create, the two sync functions and
\* the directory's own changes
NextOrg3 ==
    \/ \E p \in Procs : CreateStep(p)
    \/ \E p \in Procs : SyncStep(p)
    \/ \E p \in Procs : SyncOrgStep(p)
    \/ EnvStep

SpecOrg == Init /\ [][NextOrg3]_vars

\* the invitation table: cancel and sync, with the directory's own changes
\* and failing calls
NextInv ==
    \/ \E p \in Procs : CancelStep(p)
    \/ \E p \in Procs : SyncStep(p)
    \/ \E p \in Procs : Fault(p)
    \/ EnvStep

SpecInv == Init /\ [][NextInv]_vars

\* create alone, with the directory's own changes and failing calls
NextCreate ==
    \/ \E p \in Procs : CreateStep(p)
    \/ \E p \in Procs : Fault(p)
    \/ EnvStep

SpecCreate == Init /\ [][NextCreate]_vars

\* the slug check and the create it precedes, with the directory's own
\* changes and failing calls
NextCheck ==
    \/ \E p \in Procs : CheckSlugStep(p)
    \/ \E p \in Procs : CreateStep(p)
    \/ \E p \in Procs : Fault(p)
    \/ EnvStep

SpecCheck == Init /\ [][NextCheck]_vars

\* invitations as the days pass: cancel and sync, with the directory's own
\* changes
NextExpiry ==
    \/ \E p \in Procs : CancelStep(p)
    \/ \E p \in Procs : SyncStep(p)
    \/ EnvStep
    \/ Tick

SpecExpiry == Init /\ [][NextExpiry]_vars

\* invitations: invite and cancel, with failing calls
NextInvite ==
    \/ \E p \in Procs : InviteStep(p)
    \/ \E p \in Procs : CancelStep(p)
    \/ \E p \in Procs : Fault(p)

SpecInvite == Init /\ [][NextInvite]_vars

\* who may invite and cancel: invite, cancel and the sync that makes a user
\* a member, with the directory's own changes
NextAuth ==
    \/ \E p \in Procs : InviteStep(p)
    \/ \E p \in Procs : CancelStep(p)
    \/ \E p \in Procs : SyncStep(p)
    \/ EnvStep

SpecAuth == Init /\ [][NextAuth]_vars

\* sync alone, with the directory's own changes and failing calls
NextSync ==
    \/ \E p \in Procs : SyncStep(p)
    \/ \E p \in Procs : Fault(p)
    \/ EnvStep

SpecSync == Init /\ [][NextSync]_vars

\* the custom domain of an organization: add, verify and remove by its
\* owner, with the DNS changes of the domain's holder and failing calls
DomainOwners == {"u1"}
ExistingOrgIds == {o.id : o \in organization}

OwnerStep(p) ==
    \/ ops < MaxDomainOps
           /\ DomainStart(p, DomainOwners, ExistingOrgIds, DomainNames)
    \/ AddRun(p)
    \/ VerifyRun(p)
    \/ RemoveRun(p)

NextDomain ==
    \/ \E p \in Procs : OwnerStep(p)
    \/ \E p \in Procs : Fault(p)
    \/ \E p \in Procs : CaughtFault(p)
    \/ DnsStep

SpecDomain == InitDomain /\ [][NextDomain]_vars

\* who may manage the custom domain: the requests of every principal, with
\* the DNS changes of the domain's holder
NextDomainAuth ==
    \/ \E p \in Procs : DomainStep(p)
    \/ DnsStep

SpecDomainAuth == InitDomain /\ [][NextDomainAuth]_vars

\* generateSlug alone, on the names of NameInputs
InitSlug ==
    /\ organization = {}
    /\ member = {}
    /\ invitation = {}
    /\ keycloakSyncState = {}
    /\ kcOrgs = {}
    /\ pc = [p \in Procs |-> "idle"]
    /\ loc = [p \in Procs |-> LocInit]
    /\ ops = 0
    /\ faults = 0
    /\ envs = 0
    /\ now = 1
    /\ txt = [d \in DomainNames |-> {}]
    /\ slugCalc \in {[NoSlugCalc EXCEPT !.name = n] : n \in NameInputs}
    /\ recDone = [u \in Users |-> << >>]
    /\ cancelledOk = {}

SpecSlug == InitSlug /\ [][ApplyGenerateSlug]_vars

\* the slugs given to validateSlug: the names, as typed, and the reserved words
ValidateInputs == NameInputs \cup RESERVED_SLUGS

\* the store and the directory empty, no request running, and one of calcs
\* as the input of a slug function
InitCalc(calcs) ==
    /\ organization = {}
    /\ member = {}
    /\ invitation = {}
    /\ keycloakSyncState = {}
    /\ kcOrgs = {}
    /\ pc = [p \in Procs |-> "idle"]
    /\ loc = [p \in Procs |-> LocInit]
    /\ ops = 0
    /\ faults = 0
    /\ envs = 0
    /\ now = 1
    /\ txt = [d \in DomainNames |-> {}]
    /\ slugCalc \in calcs
    /\ recDone = [u \in Users |-> << >>]
    /\ cancelledOk = {}

\* validateSlug alone, on the slugs of ValidateInputs
InitValidate ==
    InitCalc({[NoSlugCalc EXCEPT !.checked = s] : s \in ValidateInputs})

SpecValidate == InitValidate /\ [][ApplyValidateSlug]_vars

\* generateSlugSuggestions alone, on base slugs of 0 to MaxPad letters and
\* counts of 0 to MaxCount
InitSuggest ==
    InitCalc({[NoSlugCalc EXCEPT !.baseSlug = Pad(k), !.count = n] :
                 k \in 0..MaxPad, n \in 0..MaxCount})

SpecSuggest == InitSuggest /\ [][ApplyGenerateSlugSuggestions]_vars

\* ----------------------------------------------------------------- claims
Done(p, op) == pc[p] = "done" /\ loc[p].op = op

\* the directory organizations its administrators created
EnvMade == {o \in kcOrgs : \E n \in 1..envs : o.id = KcEnvId(n)}

\* C1: of two concurrent create requests with the same valid slug, free when
\* the first started, not claimed by the directory itself meanwhile, and
\* made by users the directory knows, exactly one is answered 200 and the
\* other 409 (slug taken)
C1_ExactlyOneSucceeds ==
    \A p, q \in Procs :
        ( /\ p # q
          /\ Done(p, "create") /\ Done(q, "create")
          /\ loc[p].slug = loc[q].slug
          /\ validateSlug(loc[p].slug) = "valid"
          /\ loc[p].overlapped /\ loc[q].overlapped
          /\ loc[p].fresh \/ loc[q].fresh
          /\ \A o \in EnvMade : o.alias # loc[p].slug
          /\ loc[p].user \in KcUsers /\ loc[q].user \in KcUsers
          /\ ~loc[p].faulted /\ ~loc[q].faulted )
        => {loc[p].res, loc[q].res} = {"200", "409"}

\* C2: no two organization rows have the same slug
C2_SlugUnique ==
    \A a, b \in organization : a.slug = b.slug => a = b

\* a sync was refused the insert of a directory organization whose alias is
\* the slug of a row of another organization
C2_Witness ==
    \E p \in Procs, o \in kcOrgs, r \in organization :
        /\ Done(p, "sync") /\ loc[p].res = "thrown"
        /\ loc[p].failedAt = o.id
        /\ o.alias = r.slug
        /\ o.id # r.keycloakOrgId

\* C3: a set keycloakOrgId of an organization row never changes, and no two
\* organization rows carry the same keycloakOrgId
C3_ExternalIdStableUnique ==
    [][ /\ \A r \in organization :
               r.keycloakOrgId # Null =>
                   \A s \in organization' :
                       s.id = r.id => s.keycloakOrgId = r.keycloakOrgId
        /\ \A a, b \in organization' :
               (a.keycloakOrgId # Null /\ a.keycloakOrgId = b.keycloakOrgId)
                   => a = b ]_vars

\* two syncs found the same directory organization missing at the same time;
\* one inserted its row and the other was refused
C3_Witness ==
    \E p \in Procs, o \in kcOrgs, r \in organization :
        /\ Done(p, "sync") /\ loc[p].res = "thrown" /\ loc[p].overlapped
        /\ loc[p].failedAt = o.id
        /\ r.keycloakOrgId = o.id
        /\ o.alias = NoSlug

\* C4: at most one member row per (organizationId, userId)
C4_MemberUnique ==
    \A a, b \in member :
        (a.organizationId = b.organizationId /\ a.userId = b.userId) => a = b

\* C5: every organization that has a member row has one with role owner
C5_OwnerPresent ==
    \A r \in organization :
        (\E m \in member : m.organizationId = r.id)
            => \E m \in member : m.organizationId = r.id /\ m.role = "owner"

Terminal == {"accepted", "cancelled", "expired"}

\* C6: an invitation in a terminal status never changes status
C6_TerminalStays ==
    [][ \A i \in invitation :
            i.status \in Terminal =>
                \A j \in invitation' : j.id = i.id => j.status = i.status ]_vars

\* the principal may cancel invitation id: owner or admin of its organization
Authorized(u, id) ==
    \E i \in invitation, m \in member :
        /\ i.id = id
        /\ m.organizationId = i.organizationId
        /\ m.userId = u
        /\ m.role \in {"owner", "admin"}

\* C7: a cancel that starts after a cancel of the same invitation answered
\* 200, made by an owner or admin, is answered 400 (not pending) and writes
\* nothing
C7_CancelIsTerminal ==
    \A p \in Procs :
        ( /\ Done(p, "cancel")
          /\ loc[p].afterCancel
          /\ Authorized(loc[p].user, loc[p].inv)
          /\ ~loc[p].faulted )
        => loc[p].res = "400" /\ loc[p].writes = 0

\* a second cancel of a cancelled invitation was answered
C7_Witness ==
    \E p \in Procs :
        /\ Done(p, "cancel")
        /\ loc[p].afterCancel
        /\ Authorized(loc[p].user, loc[p].inv)
        /\ ~loc[p].faulted
        /\ loc[p].res = "400"

\* C8: a sync that runs in the store and directory exactly as the last
\* returned sync of the same user left them returns {0, 0, 0} and writes
\* nothing
C8_SecondSyncIsNoop ==
    \A p \in Procs :
        ( /\ Done(p, "sync")
          /\ loc[p].afterPrev
          /\ ~loc[p].faulted )
        => /\ loc[p].res = "returned"
           /\ loc[p].result = Zero
           /\ loc[p].writes = 0

\* the second sync of a user whose first sync created a membership returned
C8_Witness ==
    \E p \in Procs :
        /\ Done(p, "sync")
        /\ loc[p].afterPrev
        /\ ~loc[p].faulted
        /\ loc[p].listed # {}
        /\ \E m \in member : m.userId = loc[p].user /\ m.role = "member"

\* one row of the ledger per entity
LedgerUnique ==
    \A a, b \in keycloakSyncState :
        (a.entityType = b.entityType /\ a.entityId = b.entityId) => a = b

\* no directory organization has the slug of another organization's row as
\* its alias (the insert of its row would be refused in a single sync too)
NoAliasClash ==
    \A o \in kcOrgs, r \in organization :
        o.alias = r.slug => o.id = r.keycloakOrgId

\* C9: two overlapping syncs of the same user both return, leave no duplicate
\* organization, member or ledger row, and accept an invitation at most once
C9_ConcurrentSyncSafe ==
    \A p, q \in Procs :
        ( /\ p # q
          /\ Done(p, "sync") /\ Done(q, "sync")
          /\ loc[p].user = loc[q].user
          /\ loc[p].overlapped /\ loc[q].overlapped
          /\ ~loc[p].faulted /\ ~loc[q].faulted
          /\ NoAliasClash )
        => /\ loc[p].res = "returned" /\ loc[q].res = "returned"
           /\ C2_SlugUnique
           /\ C4_MemberUnique
           /\ LedgerUnique
           /\ loc[p].result.acceptedInvitations
                + loc[q].result.acceptedInvitations
                  <= Cardinality({i \in invitation : i.status = "accepted"})

\* organization k of the directory is mirrored for user u
Reconciled(k, u) ==
    \E r \in organization :
        r.keycloakOrgId = k /\ existingMembership(r.id, u) # {}

\* C10: a sync one of whose organizations failed still returns, and every
\* other organization the directory listed is reconciled
C10_NeverRaises ==
    \A p \in Procs :
        (Done(p, "sync") /\ loc[p].failedAt # Null)
        => /\ loc[p].res = "returned"
           /\ \A k \in loc[p].listed \ {loc[p].failedAt} :
                  Reconciled(k, loc[p].user)

\* C11: a sync that inserted the user's membership in an organization where
\* an invitation for the user's email was pending, that no cancel and no
\* other sync of the user crossed and none of whose organizations failed,
\* returns, leaves that invitation accepted with acceptedAt set and reports
\* one accepted invitation for each
C11_SyncAcceptsInvitation ==
    \A p \in Procs :
        ( /\ Done(p, "sync")
          /\ loc[p].owed # {}
          /\ loc[p].owed \cap cancelledOk = {}
          /\ ~loc[p].overlapped
          /\ ~loc[p].faulted
          /\ loc[p].failedAt = Null )
        => /\ loc[p].res = "returned"
           /\ \A i \in invitation :
                  i.id \in loc[p].owed =>
                      i.status = "accepted" /\ i.acceptedAt # Null
           /\ loc[p].result.acceptedInvitations = Cardinality(loc[p].owed)

\* the sync of the invited user returned with one accepted invitation
C11_Witness ==
    \E p \in Procs, i \in invitation :
        /\ Done(p, "sync")
        /\ loc[p].owed = {i.id}
        /\ ~loc[p].overlapped /\ ~loc[p].faulted
        /\ loc[p].res = "returned"
        /\ i.email = Email(loc[p].user)
        /\ i.status = "accepted"
        /\ loc[p].result.newMemberships = 1
        /\ loc[p].result.acceptedInvitations = 1

\* the caller of invite request p is owner or admin of its organization
InviteAuthorized(p) ==
    \E m \in member : /\ m.organizationId = loc[p].org
                       /\ m.userId = loc[p].user
                       /\ m.role \in {"owner", "admin"}

\* the body of invite request p names an organization that exists, a well
\* formed email and a role
InviteWellFormed(p) ==
    /\ \E o \in organization : o.id = loc[p].org
    /\ emailRegex(loc[p].email)
    /\ loc[p].role \in validRoles

\* C12: an invite by an owner or admin, with a valid email and role, for an
\* invitee who was not a member and had no pending invitation, is answered
\* 200 after one directory invitation call and one insert: a pending
\* invitation row for the email that expires 7 days later
C12_InviteSucceeds ==
    \A p \in Procs :
        ( /\ Done(p, "invite")
          /\ InviteAuthorized(p)
          /\ InviteWellFormed(p)
          /\ loc[p].fresh
          /\ ~loc[p].overlapped
          /\ ~loc[p].faulted )
        => /\ loc[p].res = "200"
           /\ loc[p].calls = <<"invite">>
           /\ loc[p].writes = 1
           /\ \E i \in invitation :
                  /\ i.id = loc[p].inv
                  /\ i.organizationId = loc[p].org
                  /\ i.email = loc[p].email
                  /\ i.role = loc[p].role
                  /\ i.expiresAt - InviteDays \in 1..now
                  /\ i.inviterId = loc[p].user

C15_AlreadyInvited ==
    \A p \in Procs :
        ( /\ Done(p, "invite")
          /\ InviteAuthorized(p)
          /\ InviteWellFormed(p)
          /\ \E i \in invitation : /\ i.organizationId = loc[p].org
                                    /\ i.email = loc[p].email
                                    /\ i.status = "pending"
                                    /\ i.id # loc[p].inv
          /\ ~loc[p].faulted )
        => /\ loc[p].res = "409_invited"
           /\ loc[p].calls = << >>
           /\ loc[p].writes = 0

\* C16: an invite or a cancel whose caller is not owner or admin of the
\* organization is answered 403, with no directory call and no write
C16_Unauthorized ==
    \A p \in Procs :
        /\ ( /\ Done(p, "invite")
             /\ InviteWellFormed(p)
             /\ ~InviteAuthorized(p)
             /\ ~loc[p].faulted )
           => /\ loc[p].res = "403"
              /\ loc[p].calls = << >>
              /\ loc[p].writes = 0
        /\ ( /\ Done(p, "cancel")
             /\ \E i \in invitation : i.id = loc[p].inv
             /\ ~Authorized(loc[p].user, loc[p].inv)
             /\ ~loc[p].faulted )
           => /\ loc[p].res = "403"
              /\ loc[p].calls = << >>
              /\ loc[p].writes = 0

\* a user with role member was refused an invite, or a cancel
C16_Witness ==
    \E p \in Procs, m \in member :
        /\ m.userId = loc[p].user
        /\ m.role = "member"
        /\ loc[p].res = "403"
        /\ \/ /\ Done(p, "invite")
              /\ InviteWellFormed(p)
              /\ m.organizationId = loc[p].org
           \/ /\ Done(p, "cancel")
              /\ \E i \in invitation :
                     i.id = loc[p].inv /\ i.organizationId = m.organizationId

\* the directory calls of kind c that request p made
CallsOf(p, c) == {n \in 1..Len(loc[p].calls) : loc[p].calls[n] = c}

\* C17: a create answered 400 (slug validation) or 409 (slug taken in the
\* store or in the directory) made no store write and no directory create
\* or member add
C17_CleanRejection ==
    \A p \in Procs :
        (Done(p, "create") /\ loc[p].res \in {"400", "409"})
        => /\ loc[p].writes = 0
           /\ CallsOf(p, "create") = {}
           /\ CallsOf(p, "addUser") = {}

\* a create was refused at the directory alias check
C17_Witness ==
    \E p \in Procs :
        /\ Done(p, "create")
        /\ loc[p].res = "409"
        /\ loc[p].calls = <<"search">>
        /\ \A r \in organization : r.slug # loc[p].slug

\* C18: the step that answers a create 200 leaves exactly one organization
\* row with the slug, its keycloakOrgId the id the directory create gave,
\* exactly one member row for it (the caller, owner), and one synced ledger
\* row for the organization and one for the membership
C18_CreateLeavesFourRows ==
    [][ \A p \in Procs :
            ( /\ pc[p] = "c_insMemSync"
              /\ pc'[p] = "done"
              /\ loc'[p].res = "200" )
            => /\ \E o \in kcOrgs' : /\ o.id = loc[p].kcOrg
                                      /\ o.alias = loc[p].slug
               /\ {r.id : r \in {s \in organization' : s.slug = loc[p].slug}}
                      = {loc[p].orgId}
               /\ \A r \in organization' :
                      r.id = loc[p].orgId =>
                          r.slug = loc[p].slug /\ r.keycloakOrgId = loc[p].kcOrg
               /\ {m.id : m \in {n \in member' :
                                    n.organizationId = loc[p].orgId}}
                      = {loc[p].memberId}
               /\ \A m \in member' :
                      m.id = loc[p].memberId =>
                          m.userId = loc[p].user /\ m.role = "owner"
               /\ Cardinality({s \in keycloakSyncState' :
                                  /\ s.entityType = "organization"
                                  /\ s.entityId = loc[p].orgId
                                  /\ s.syncStatus = "synced"}) = 1
               /\ Cardinality({s \in keycloakSyncState' :
                                  /\ s.entityType = "member"
                                  /\ s.entityId = loc[p].memberId
                                  /\ s.syncStatus = "synced"}) = 1 ]_vars

\* a create was answered 200 and its organization has an owner
C18_Witness ==
    \E p \in Procs, r \in organization, m \in member :
        /\ Done(p, "create")
        /\ loc[p].res = "200"
        /\ loc[p].writes = 4
        /\ r.slug = loc[p].slug
        /\ m.organizationId = r.id
        /\ m.userId = loc[p].user

\* C19: a create that ended made all four of its store writes or none
C19_AllOrNothing ==
    \A p \in Procs :
        Done(p, "create") => loc[p].writes \in {0, 4}

\* C20: a create that fails after its directory create succeeded is answered
\* 500; the directory organization stays, the request made one create call
\* and repeated no call
C20_HardErrorNoRollback ==
    [][ \A p \in Procs :
            ( /\ loc[p].op = "create"
              /\ ~Idle(p)
              /\ pc'[p] = "done"
              /\ loc[p].kcOrg # Null
              /\ loc'[p].res # "200" )
            => /\ loc'[p].res = "500"
               /\ \E o \in kcOrgs' : o.id = loc[p].kcOrg
               /\ Cardinality({n \in 1..Len(loc'[p].calls) :
                                  loc'[p].calls[n] = "create"}) = 1
               /\ Cardinality({loc'[p].calls[n] :
                                  n \in 1..Len(loc'[p].calls)})
                      = Len(loc'[p].calls)
               /\ loc'[p].writes <= 4 ]_vars

\* a create failed at the user lookup and left an organization in the
\* directory that has no row in the store
C20_Witness ==
    \E p \in Procs, o \in kcOrgs :
        /\ Done(p, "create")
        /\ loc[p].res = "500"
        /\ loc[p].calls = <<"search", "create", "getUser">>
        /\ o.alias = loc[p].slug
        /\ o.members = {}
        /\ \A r \in organization : r.keycloakOrgId # o.id

\* C21: the ledger holds at most one record per (entityType, entityId)
C21_LedgerKeyUnique ==
    \A a, b \in keycloakSyncState :
        (a.entityType = b.entityType /\ a.entityId = b.entityId) => a = b

\* a create and a sync each recorded an organization and a membership: the
\* ledger holds two records of each type, written by different requests
C21_Witness ==
    /\ Cardinality({s \in keycloakSyncState : s.entityType = "organization"}) >= 2
    /\ Cardinality({s \in keycloakSyncState : s.entityType = "member"}) >= 2
    /\ \E p, q \in Procs :
           /\ Done(p, "create") /\ loc[p].res = "200"
           /\ Done(q, "sync") /\ loc[q].res = "returned"
           /\ loc[q].result.newMemberships >= 1

\* C22: the custom-domain state of an organization only moves none ->
\* pending -> verified: only the store update of RemoveDomain takes a
\* pending or verified domain to none, and no step takes a verified domain
\* to pending
C22_DomainStateMachine ==
    [][ \A r \in organization, s \in organization' :
            r.id = s.id =>
                /\ ( /\ DomainState(r) \in {"pending", "verified"}
                     /\ DomainState(s) = "none" )
                   => \E p \in Procs : /\ loc[p].op = "removeDomain"
                                        /\ pc[p] = "rm_upd"
                                        /\ loc[p].org = r.id
                /\ ~(DomainState(r) = "verified" /\ DomainState(s) = "pending")
      ]_vars

\* C23: while the customDomain of an organization is set, an AddDomain
\* request that ends is answered 409 and leaves the row (customDomain,
\* domainVerified, token) as it was, also when two AddDomain requests for
\* the organization interleave
C23_AddNeverReplaces ==
    [][ \A p \in Procs, r \in organization :
            ( /\ loc[p].op = "addDomain"
              /\ ~Idle(p)
              /\ pc'[p] = "done"
              /\ ~loc'[p].faulted
              /\ r.id = loc[p].org
              /\ r.customDomain # NoDomain )
            => /\ loc'[p].res \in {"409", "403"}
               /\ r \in organization' ]_vars

\* C24: a VerifyDomain of the owner that reads the pending domain and the
\* token AddDomain stored, and whose DNS lookup returns a TXT record equal
\* to that token, goes on to the store update; the update sets
\* domainVerified = true and the request is answered 200 (verified)
C24_VerifySucceeds ==
    [][ \A p \in Procs :
            (loc[p].op = "verifyDomain" /\ faults' = faults) =>
                /\ ( /\ pc[p] = "vf_dns"
                     /\ pc'[p] # "vf_dns"
                     /\ loc[p].token \in txt[loc[p].orgData[1].customDomain] )
                   => pc'[p] = "vf_upd"
                /\ (pc[p] = "vf_upd" /\ pc'[p] # "vf_upd")
                   => \A r \in organization' :
                          r.id = loc[p].org => r.domainVerified
                /\ ( /\ pc[p] \in {"vf_upd", "vf_getKc", "vf_updKc"}
                     /\ pc'[p] = "done" )
                   => /\ loc'[p].res = "200"
                      /\ loc'[p].err = "none"
                      /\ loc'[p].writes = 1 ]_vars

\* an AddDomain was answered 200 with a token, the token was published for
\* the domain, and a VerifyDomain run after it was answered verified; the
\* row carries the domain, verified
C24_Witness ==
    \E p, q \in Procs, r \in organization :
        /\ Done(q, "addDomain") /\ loc[q].res = "200"
        /\ Done(p, "verifyDomain") /\ loc[p].res = "200"
        /\ loc[p].err = "none"
        /\ ~loc[p].overlapped /\ ~loc[q].overlapped
        /\ loc[p].org = loc[q].org
        /\ loc[p].token = loc[q].token
        /\ loc[q].token \in txt[loc[q].domain]
        /\ r.id = loc[p].org
        /\ r.customDomain = loc[q].domain
        /\ r.domainVerified

\* the member table makes u owner of organization o
IsOwner(u, o) ==
    \E m \in member :
        m.organizationId = o /\ m.userId = u /\ m.role = "owner"

\* C25: a VerifyDomain of the owner that reads the domain as already
\* verified is answered 200 (verified) and has made no DNS lookup, no
\* directory call and no store write
C25_VerifyIdempotent ==
    \A p \in Procs :
        ( /\ Done(p, "verifyDomain")
          /\ loc[p].seen = "verified"
          /\ IsOwner(loc[p].user, loc[p].org)
          /\ ~loc[p].faulted )
        => /\ loc[p].res = "200"
           /\ loc[p].calls = << >>
           /\ loc[p].writes = 0

\* a second VerifyDomain found the domain verified
C25_Witness ==
    \E p \in Procs, r \in organization :
        /\ Done(p, "verifyDomain")
        /\ loc[p].seen = "verified"
        /\ loc[p].res = "200"
        /\ loc[p].err = "Domain already verified"
        /\ r.id = loc[p].org
        /\ r.domainVerified
        /\ Len(r.metadata) = 3

\* why the DNS check of the verify at vf_dns fails on this step: the lookup
\* itself failed, the name has no TXT record, or no record equals the token
DnsCause(p) ==
    IF faults' # faults THEN "resolver error"
    ELSE IF txt[loc[p].orgData[1].customDomain] = {} THEN "record not found"
    ELSE "token mismatch"

\* C26: a VerifyDomain whose DNS check fails is answered 400 (not 500) with
\* an error that tells record not found, token mismatch and resolver error
\* apart, and has written nothing: the organization rows and the directory
\* are as before the request
C26_DnsFailureTyped ==
    [][ \A p \in Procs :
            (pc[p] = "vf_dns" /\ pc'[p] = "done")
            => /\ loc'[p].res = "400"
               /\ loc'[p].writes = 0
               /\ organization' = organization
               /\ kcOrgs' = kcOrgs
               /\ DnsCause(p) = "record not found"
                      <=> loc'[p].err \in {ErrNotFound, ErrNoData}
               /\ DnsCause(p) = "token mismatch"
                      <=> loc'[p].err = ErrTokenNotFound ]_vars

\* a VerifyDomain was refused by the DNS check and a later VerifyDomain of
\* the same organization was answered verified
C26_Witness ==
    \E p \in Procs, r \in organization :
        /\ Done(p, "verifyDomain")
        /\ loc[p].afterFailed
        /\ loc[p].res = "200"
        /\ loc[p].err = "none"
        /\ loc[p].writes = 1
        /\ r.id = loc[p].org
        /\ r.domainVerified

\* C27: when a directory call of a VerifyDomain fails after the DNS check
\* succeeded and the store update ran, the request still ends with 200
\* (verified); the failing step changes no organization row, and the row of
\* a verify that no other domain request crossed has domainVerified = true
C27_MirrorFailureNotFatal ==
    [][ \A p \in Procs :
            ( /\ pc[p] \in {"vf_getKc", "vf_updKc"}
              /\ pc'[p] # pc[p]
              /\ faults' # faults )
            => /\ pc'[p] = "done"
               /\ loc'[p].res = "200"
               /\ loc'[p].err = "none"
               /\ loc'[p].writes = 1
               /\ organization' = organization
               /\ ~loc'[p].overlapped
                      => \E r \in organization' :
                             r.id = loc[p].org /\ r.domainVerified ]_vars

\* a VerifyDomain was answered verified although its directory call
\* failed: the row is verified, the directory organization is not updated
C27_Witness ==
    \E p \in Procs, r \in organization, o \in kcOrgs :
        /\ Done(p, "verifyDomain")
        /\ loc[p].kcFailed
        /\ loc[p].res = "200"
        /\ r.id = loc[p].org
        /\ r.domainVerified
        /\ o.id = r.keycloakOrgId
        /\ o.attributes.domain_verified = << >>

\* C28: a RemoveDomain of the owner on which no store call fails ends with
\* 200 and leaves the row with customDomain null, domainVerified false and
\* no stored token, whatever state it read and also when its directory call
\* failed
C28_RemoveClears ==
    [][ \A p \in Procs :
            ( /\ loc[p].op = "removeDomain"
              /\ ~Idle(p)
              /\ pc'[p] = "done"
              /\ IsOwner(loc[p].user, loc[p].org)
              /\ ~loc'[p].faulted )
            => /\ loc'[p].res = "200"
               /\ \E r \in organization' :
                      /\ r.id = loc[p].org
                      /\ r.customDomain = NoDomain
                      /\ ~r.domainVerified
                      /\ r.metadata = NoMetadata ]_vars

\* a RemoveDomain read a verified domain, its directory call failed, and it
\* was answered 200 with the row cleared
C28_Witness ==
    \E p \in Procs, r \in organization :
        /\ Done(p, "removeDomain")
        /\ loc[p].seen = "verified"
        /\ loc[p].kcFailed
        /\ loc[p].res = "200"
        /\ r.id = loc[p].org
        /\ r.customDomain = NoDomain
        /\ ~r.domainVerified
        /\ r.metadata = NoMetadata

C30_GenerateIdempotent ==
    [][ (slugCalc.applied >= 1 /\ slugCalc'.applied = slugCalc.applied + 1)
            => slugCalc'.slug = slugCalc.slug ]_vars


\* C31: a slug made by generateSlug has at most MAX_LENGTH characters, all
\* of them in a-z, 0-9 and '-', no hyphen at either end and no two hyphens
\* in a row, and passes validateSlug when it has at least MIN_LENGTH
\* characters and is no reserved word
C31_GenerateWellFormed ==
    slugCalc.applied >= 1 =>
        LET s == slugCalc.slug
        IN  /\ Len(s) <= MAX_LENGTH
            /\ \A i \in 1..Len(s) : s[i] \in AlNum \cup {"-"}
            /\ Len(s) > 0 => (s[1] # "-" /\ s[Len(s)] # "-")
            /\ \A i \in 1..(Len(s) - 1) : ~(s[i] = "-" /\ s[i + 1] = "-")
            /\ (Len(s) >= MIN_LENGTH /\ s \notin RESERVED_SLUGS)
                   => validateSlug(s) = "valid"


\* s is one or more segments of lowercase letters and digits separated by
\* single hyphens: every character is a letter, a digit or a hyphen, and
\* between two of the bounds (the hyphens, the position before the first
\* character, the position after the last) lies at least one character
IsSegments(s) ==
    LET bounds == {i \in 1..Len(s) : s[i] = "-"} \cup {0, Len(s) + 1}
    IN  /\ \A i \in 1..Len(s) : s[i] \in AlNum \cup {"-"}
        /\ \A a, b \in bounds : a < b => b - a >= 2

\* C32: validateSlug accepts a slug exactly when it has 3 to 50 characters,
\* is made of segments separated by single hyphens and is no reserved
\* word; a reserved word is never accepted; the error is that of the first
\* failing check in the order length, format, reserved
C32_ValidateExact ==
    slugCalc.validation # "none" =>
        LET s == slugCalc.checked
            v == slugCalc.validation
            lengthOk == Len(s) >= 3 /\ Len(s) <= 50
        IN  /\ v = "valid" <=> (lengthOk /\ IsSegments(s) /\ s \notin RESERVED_SLUGS)
            /\ s \in RESERVED_SLUGS => v # "valid"
            /\ v = "too_short" <=> Len(s) < 3
            /\ v = "too_long" <=> Len(s) > 50
            /\ v = "bad_format" <=> (lengthOk /\ ~IsSegments(s))
            /\ v = "reserved" <=> (lengthOk /\ IsSegments(s) /\ s \in RESERVED_SLUGS)

\* the reserved word admin was validated and refused as reserved
C32_Witness ==
    /\ slugCalc.checked = <<"a", "d", "m", "i", "n">>
    /\ slugCalc.validation = "reserved"


\* the candidate generateSlugSuggestions builds for number i
Candidate(base, i) == base \o <<"-">> \o NumberToString(i)

\* C33: generateSlugSuggestions(base, n) returns, in order, the candidates
\* base-2 .. base-(n+1) of at most 50 characters: no returned suggestion is
\* longer, all n are returned when all fit, none when base has 50
\* characters
C33_SuggestionsFit ==
    slugCalc.suggested =>
        LET base == slugCalc.baseSlug
            n == slugCalc.count
            out == slugCalc.suggestions
            all == [k \in 1..n |-> Candidate(base, k + 1)]
        IN  /\ out = SelectSeq(all, LAMBDA c : Len(c) <= 50)
            /\ \A k \in 1..Len(out) : Len(out[k]) <= 50
            /\ (\A k \in 1..n : Len(all[k]) <= 50) => out = all
            /\ Len(base) = 50 => out = << >>

\* ten suggestions were asked for a base of 48 characters: the eight with
\* a one-digit number came back, the two with a two-digit number did not
C33_Witness ==
    /\ slugCalc.suggested
    /\ slugCalc.count = 10
    /\ Len(slugCalc.baseSlug) = 48
    /\ Len(slugCalc.suggestions) = 8
    /\ slugCalc.suggestions[8] = Candidate(slugCalc.baseSlug, 9)


\* C34: a CheckSlug of a reserved slug is answered 200 with available
\* false, the reserved error and suggestions; a CheckSlug of a slug that is
\* too short or badly formatted is answered 400
C34_ReservedIsAvailabilityResult ==
    \A p \in Procs :
        (Done(p, "checkSlug") /\ ~loc[p].faulted) =>
            /\ loc[p].slug \in RESERVED_SLUGS
                   => /\ loc[p].res = "200"
                      /\ ~loc[p].available
                      /\ loc[p].err = "reserved"
                      /\ loc[p].suggestions # << >>
            /\ (loc[p].slug # NoSlug /\ (Len(loc[p].slug) < 3 \/ ~IsSegments(loc[p].slug)))
                   => loc[p].res = "400"


\* C38: a create that starts after a CheckSlug of its slug answered
\* available: true does not end with 409 (slug taken) while the
\* organization table and the directory are as they were at that answer
C38_CheckAgreesWithCreate ==
    [][ \A p, q \in Procs :
            ( /\ Done(q, "checkSlug")
              /\ loc[q].available
              /\ loc[q].snap = <<organization, kcOrgs>>
              /\ loc[p].op = "create"
              /\ loc[p].slug = loc[q].slug
              /\ loc[p].afterCheck
              /\ ~Idle(p)
              /\ pc'[p] = "done" )
            => loc'[p].res # "409" ]_vars


\* C35: no step takes an invitation that is pending after its expiresAt
\* has passed to accepted or to cancelled
C35_ExpiredNotActionable ==
    [][ \A i \in invitation, j \in invitation' :
            ( /\ i.status = "pending"
              /\ i.expiresAt < now
              /\ j.id = i.id )
            => j.status \notin {"accepted", "cancelled"} ]_vars


\* C36: an organization row with domainVerified = true has a customDomain
\* and a stored verification token
C36_VerifiedHasDomain ==
    \A r \in organization :
        r.domainVerified =>
            /\ r.customDomain # NoDomain
            /\ domainVerificationToken(r.metadata) # NoToken


\* C37: a step that leaves an organization row verified and changed is the
\* store update of a VerifyDomain whose DNS lookup was made for the
\* customDomain the row now holds and returned the token the row now
\* holds, and it leaves the stored token as it was
C37_VerifiedOnlyAfterLookup ==
    [][ \A r \in organization, s \in organization' :
            (s.id = r.id /\ s.domainVerified /\ s # r) =>
                \E p \in Procs :
                    /\ pc[p] = "vf_upd"
                    /\ loc[p].org = s.id
                    /\ loc[p].orgData[1].customDomain = s.customDomain
                    /\ loc[p].token = domainVerificationToken(s.metadata)
                    /\ loc[p].token \in txt[s.customDomain]
                    /\ domainVerificationToken(r.metadata) = loc[p].token ]_vars

\* C39: a step of ReconcileUser keeps every organization, member and
\* ledger row as it is and neither inserts nor deletes an invitation; an
\* invitation row it changes was pending and becomes accepted
C39_SyncOnlyAdds ==
    [][ \A p \in Procs :
            (loc[p].op = "sync" /\ pc[p] \in SyncSteps /\ pc'[p] # pc[p]) =>
                /\ organization \subseteq organization'
                /\ member \subseteq member'
                /\ keycloakSyncState \subseteq keycloakSyncState'
                /\ {j.id : j \in invitation'} = {i.id : i \in invitation}
                /\ \A i \in invitation :
                       \/ i \in invitation'
                       \/ /\ i.status = "pending"
                          /\ \E j \in invitation' :
                                 /\ j.id = i.id
                                 /\ j.status = "accepted"
                                 /\ j.organizationId = i.organizationId
                                 /\ j.email = i.email
                                 /\ j.role = i.role ]_vars


\* C40: an invitation has acceptedAt set exactly when its status is
\* accepted
C40_AcceptedAtIffAccepted ==
    \A i \in invitation : (i.acceptedAt # Null) <=> (i.status = "accepted")

====
